---- MODULE Spec2Model ----
(***************************************************************************)
(* Model of the book evaluation engine of ScanFlowEbayWeb (fetcher):       *)
(* keepaApi.ts (price extraction, Amazon 1P presence analysis, sales-rank  *)
(* metrics, fee calculation, decision logic), config.ts (thresholds) and   *)
(* evaluate.ts (the batch that feeds the engine); and of the ISBN          *)
(* utilities of keepaApi.ts and of the listing scraper.                    *)
(*                                                                         *)
(* Conventions of the model                                                *)
(*  - A nullable JavaScript value is None (<<>>) or Some(v) (<<v>>).       *)
(*  - A dollar amount is an integer number of half-cents (1/200 dollar),   *)
(*    so that "cents / 100" and the mean of two cent prices are exact.     *)
(*  - A profit is an integer number of 1/20000 dollar, so that 15% of a    *)
(*    half-cent amount is exact.                                           *)
(*  - The clock (Date.now()) and Keepa times are in seconds, not in        *)
(*    milliseconds; a Keepa time offset is in minutes, as in the source.   *)
(*  - Arithmetic is exact: the double-precision rounding of the source     *)
(*    (a quotient such as (29 / 200) * 100 = 14.499999999999998) is not    *)
(*    modelled.                                                            *)
(*  - A csv channel is the flat array [time, value, time, value, ...] of   *)
(*    the source; index i of the source is index i + 1 here.               *)
(***************************************************************************)
EXTENDS Integers, Sequences, FiniteSets, TLC

VARIABLES
    raw,        \* the Keepa snapshot handed to evaluateBook (KeepaProductRaw)
    buyPrice,   \* buyPriceDollars, in half-cents
    now,        \* the value Date.now() returns during the call, in seconds
    result,     \* the EvaluationResult of the last call, None before it
    presence,   \* the AmazonPresence of the last analyzeAmazonPresence call
    prev,       \* the EvaluationResult of the call before the last, or None
    book,       \* the pending book of the batch: [price, shipping], in cents
    fetched,    \* what getProductByIsbn returned for it: None or Some(snapshot)
    stored,     \* the evaluation updateBookEvaluation wrote for it, or None
    logged,     \* the reason in the console line of the book, or None
    sellPrice,  \* the sell price handed to the profit calculators, in half-cents
    isbn,       \* the string handed to the ISBN helpers, a sequence of characters
    ret,        \* what the helper called last returned, None before the call
    db,         \* the books table: isbn -> row [price, shipping, scraped_at, decision]
    pending,    \* the rows getPendingBooks returned to evaluatePendingBooks
    idx,        \* the number of books the for loop has finished
    counts,     \* the counters evaluated, buy, review, reject, noData
    inFlight,   \* the ISBNs whose Keepa request is outstanding
    sinceLookup,\* milliseconds slept since the last Keepa request was answered
    lookups,    \* the Keepa requests answered so far: [isbn, outcome]
    updates,    \* the updateBookEvaluation calls so far: [isbn, decision, ok] and
                \* the number of Keepa requests answered before the call
    cachedToken,    \* the cached OAuth token, None for null
    tokenExpiresAt, \* the time the cached token expires, in seconds; 0 at first
    stack,      \* the fetchWithRetry calls in progress, the innermost last
    caller,     \* who awaits the outermost call: "token" for getOAuthToken,
                \* "detail" for fetchItemDetail, "none" when nothing is called
    calls,      \* the number of calls made from outside so far
    lastIssue,  \* the last answer of the OAuth endpoint that was stored:
                \* [token, at, expires_in]
    site,       \* the seller's listings as eBay pages them: [length, listings]
    searchOffset,       \* scrapeAllListings: offset, the offset of the next search
    pageNum,    \* the number of searches started
    consecutiveErrors,  \* the searches that failed in a row
    given,      \* the ISBNs in existingISBNs when scrapeAllListings is called
    existingISBNs,      \* the set handed in by the caller, added to per page
    items,      \* the page in hand
    itemIndex,  \* the number of its listings gone through
    booksFromPage,      \* the ISBNs of the books pushed for the page in hand
    rateLimited,        \* the flag of the item loop
    detailFetches,      \* the number of fetchItemDetail calls
    passed,     \* the arrays handed to onPageDone so far
    searches,   \* the searches made so far: [offset, outcome]
    limit,      \* at the rate limit of a detail fetch: the books collected
                \* and the requests made by then
    pc          \* "ready" before the call, "done" after evaluateBook returned,
                \* "again" after the book was evaluated a second time,
                \* "later" after the same book was evaluated at a later time,
                \* "analyzed" after analyzeAmazonPresence returned,
                \* "returned", "validated", "converted" after a helper returned

vars == <<raw, buyPrice, now, result, presence, prev, book, fetched, stored, logged,
          sellPrice, isbn, ret, db, pending, idx, counts, inFlight, sinceLookup,
          lookups, updates, cachedToken, tokenExpiresAt, stack, caller, calls,
          lastIssue, site, searchOffset, pageNum, consecutiveErrors, given, existingISBNs,
          items, itemIndex, booksFromPage, rateLimited, detailFetches, passed,
          searches, limit, pc>>
batchVars == <<book, fetched, stored, logged>>
helperVars == <<sellPrice, isbn, ret>>
loopVars == <<db, pending, idx, counts, inFlight, sinceLookup, lookups, updates>>
fetchVars == <<cachedToken, tokenExpiresAt, stack, caller, calls, lastIssue>>
scrapeVars == <<site, searchOffset, pageNum, consecutiveErrors, given, existingISBNs, items,
                itemIndex, booksFromPage, rateLimited, detailFetches, passed,
                searches, limit>>
netVars == <<fetchVars, scrapeVars>>
ioVars == <<loopVars, netVars>>

----------------------------------------------------------------------------
(* Nullable values *)

None == <<>>
Some(v) == <<v>>
IsNull(x) == x = None
Val(x) == x[1]

\* The values of the batch-loop variables while evaluatePendingBooks is not running.
LoopIdle ==
    /\ db = <<>> /\ pending = <<>> /\ idx = 0 /\ counts = <<>>
    /\ inFlight = {} /\ sinceLookup = 0 /\ lookups = <<>> /\ updates = <<>>

\* The values of the token cache and of the call stack before any call.
FetchIdle ==
    /\ cachedToken = <<>> /\ tokenExpiresAt = 0 /\ stack = <<>> /\ caller = "none"
    /\ calls = 0 /\ lastIssue = <<>>

\* The values of the scraper's variables while scrapeAllListings is not running.
ScrapeIdle ==
    /\ site = <<>> /\ searchOffset = 0 /\ pageNum = 0 /\ consecutiveErrors = 0
    /\ given = {} /\ existingISBNs = {} /\ items = <<>> /\ itemIndex = 0 /\ booksFromPage = <<>>
    /\ rateLimited = FALSE /\ detailFetches = 0 /\ passed = <<>> /\ searches = <<>>
    /\ limit = <<>>

NetIdle == FetchIdle /\ ScrapeIdle

IoIdle == LoopIdle /\ NetIdle

\* JavaScript truthiness of a nullable number: neither null nor 0.
Truthy(x) == x # None /\ x[1] # 0
\* a || b on nullable numbers.
OrElse(a, b) == IF Truthy(a) THEN a ELSE b
\* "cents / 100": Keepa cents to dollars (dollars are held in half-cents).
CentsToDollars(c) == 2 * c
Max2(a, b) == IF a >= b THEN a ELSE b
Min2(a, b) == IF a <= b THEN a ELSE b

----------------------------------------------------------------------------
(* config.ts *)

BUY_MULTIPLIER == 6
BUY_MAX_SALES_RANK == 1500000
BUY_MAX_SALES_RANK_CHEAP == 2000000
\* dollars
BUY_CHEAP_PRICE_THRESHOLD == 6
BUY_MIN_DROPS_90 == 3
\* dollars
HIGH_PROFIT_MIN_FBM == 60
HIGH_PROFIT_MAX_RANK == 1000000
HIGH_PROFIT_MIN_DROPS == 10
REVIEW_MULTIPLIER == 4
REVIEW_MAX_SALES_RANK == 2500000
REVIEW_MIN_DROPS_90 == 2
KNOCKOUT_MAX_SALES_RANK == 3000000
\* 0.15, as a percentage
REFERRAL_FEE_PERCENT == 15
\* 1.80 dollars, in cents
CLOSING_FEE == 180
\* 3.50 dollars, in cents
FBA_FULFILLMENT_FEE == 350
\* 4.00 dollars, in cents
FBM_SHIPPING_COST == 400

(* keepaApi.ts *)

\* new Date('2011-01-01').getTime(), in seconds
KEEPA_BASE_TIME == 1293840000
\* 90 * 24 * 60 * 60 * 1000 ms, in seconds
WINDOW_90_DAYS == 7776000
\* the sentinel price of the Amazon 1P channel: out of stock
OUT_OF_STOCK == -1

\* KEEPA_BASE_TIME + (offset * 60 * 1000), in seconds
KeepaTime(offset) == KEEPA_BASE_TIME + offset * 60

----------------------------------------------------------------------------
(* Snapshot access.  The csv and stats index NEW of the source is the field  *)
(* NEW3P here (NEW is a reserved word).                                     *)

\* const csv = raw.csv || []; csv[CSV.X]
Channel(r, ch) == IF IsNull(r.csv) THEN None ELSE Val(r.csv)[ch]

\* The guard of the analysis on a channel: !ch || ch.length < 2
ChannelAbsent(ch) == IsNull(ch) \/ Len(Val(ch)) < 2

\* getLastPrice
MutGetLastPriceOfOneEntry(ch) ==
    IF IsNull(ch) \/ Len(Val(ch)) < 1 THEN None
    ELSE LET csv == Val(ch)
             price == csv[Len(csv)]
         IN  IF price > 0 THEN Some(CentsToDollars(price)) ELSE None
getLastPrice(ch) ==
    IF IsNull(ch) \/ Len(Val(ch)) < 2 THEN None
    ELSE LET csv == Val(ch)
             price == csv[Len(csv)]
         IN  IF price > 0 THEN Some(CentsToDollars(price)) ELSE None

\* stats?.avg, then avg[STATS.X] > 0 ? avg[STATS.X] / 100 : null
Avg180Price(r, field) ==
    IF IsNull(r.stats) THEN None
    ELSE IF IsNull(Val(r.stats).avg) THEN None
    ELSE LET a == Val(Val(r.stats).avg)[field]
         IN  IF a > 0 THEN Some(CentsToDollars(a)) ELSE None

getAmazonPrices(r) ==
    [current |-> [fba    |-> getLastPrice(Channel(r, "NEW_FBA")),
                  newFBM |-> getLastPrice(Channel(r, "NEW3P")),
                  used   |-> getLastPrice(Channel(r, "USED"))],
     avg180  |-> [fba    |-> Avg180Price(r, "NEW_FBA"),
                  newFBM |-> Avg180Price(r, "NEW3P"),
                  used   |-> Avg180Price(r, "USED")]]

----------------------------------------------------------------------------
(* analyzeAmazonPresence: Amazon 1P stockout analysis *)

\* The inner loop over the buy box history,
\*   for (j = 0; j < buyBox.length - 2; j += 2)
\* started at index j: the prices (dollars) of the buy box samples whose time
\* lies in [periodStart, periodEnd] and whose price is positive, in order.
RECURSIVE BuyBoxDuring(_, _, _, _)
BuyBoxDuring(bb, j, periodStart, periodEnd) ==
    IF ~(j < Len(bb) - 2) THEN <<>>
    ELSE LET bbTime  == KeepaTime(bb[j + 1])
             bbPrice == bb[j + 2]
             rest    == BuyBoxDuring(bb, j + 2, periodStart, periodEnd)
         IN  IF bbTime >= periodStart /\ bbTime <= periodEnd /\ bbPrice > 0
             THEN <<CentsToDollars(bbPrice)>> \o rest
             ELSE rest

\* if (buyBox && buyBox.length >= 2) { inner loop }
BuyBoxSamples(buyBox, periodStart, periodEnd) ==
    IF ChannelAbsent(buyBox) THEN <<>>
    ELSE BuyBoxDuring(Val(buyBox), 0, periodStart, periodEnd)

\* The start of a period clipped to the 90-day window.
ClipStart(time, cutoff90Days) == Max2(time, cutoff90Days)

\* One iteration of the loop over the Amazon 1P pairs, at index i, applied to
\* the accumulators acc = [total, stockout, bb].
MutPairStepNoSkip(a1p, buyBox, t, i, acc) ==
    LET time         == KeepaTime(a1p[i + 1])
        nextTime     == KeepaTime(a1p[i + 3])
        price        == a1p[i + 2]
        cutoff90Days == t - WINDOW_90_DAYS
        periodStart  == ClipStart(time, cutoff90Days)
        periodEnd    == Min2(nextTime, t)
        periodDuration == periodEnd - periodStart
    IN  IF nextTime < cutoff90Days THEN acc
        ELSE IF price = OUT_OF_STOCK
             THEN [total    |-> acc.total + periodDuration,
                   stockout |-> acc.stockout + periodDuration,
                   bb       |-> acc.bb \o BuyBoxSamples(buyBox, periodStart, periodEnd)]
             ELSE [acc EXCEPT !.total = acc.total + periodDuration]
PairStep(a1p, buyBox, t, i, acc) ==
    LET time         == KeepaTime(a1p[i + 1])
        nextTime     == KeepaTime(a1p[i + 3])
        price        == a1p[i + 2]
        cutoff90Days == t - WINDOW_90_DAYS
        periodStart  == ClipStart(time, cutoff90Days)
        periodEnd    == Min2(nextTime, t)
        periodDuration == periodEnd - periodStart
    IN  IF nextTime < cutoff90Days THEN acc
        ELSE IF periodDuration <= 0 THEN acc
        ELSE IF price = OUT_OF_STOCK
             THEN [total    |-> acc.total + periodDuration,
                   stockout |-> acc.stockout + periodDuration,
                   bb       |-> acc.bb \o BuyBoxSamples(buyBox, periodStart, periodEnd)]
             ELSE [acc EXCEPT !.total = acc.total + periodDuration]

\* for (let i = 0; i < amazon1P.length - 2; i += 2)
RECURSIVE WalkPairs(_, _, _, _, _)
WalkPairs(a1p, buyBox, t, i, acc) ==
    IF ~(i < Len(a1p) - 2) THEN acc
    ELSE WalkPairs(a1p, buyBox, t, i + 2, PairStep(a1p, buyBox, t, i, acc))

\* "Handle last period (from last data point to now)"
MutLastPeriodNoGuard(a1p, buyBox, t, acc) ==
    LET lastTime     == KeepaTime(a1p[Len(a1p) - 1])
        lastPrice    == a1p[Len(a1p)]
        cutoff90Days == t - WINDOW_90_DAYS
        periodStart  == ClipStart(lastTime, cutoff90Days)
        periodDuration == t - periodStart
    IN  IF ~(Len(a1p) >= 2) THEN acc
        ELSE IF lastPrice = OUT_OF_STOCK
             THEN [total    |-> acc.total + periodDuration,
                   stockout |-> acc.stockout + periodDuration,
                   bb       |-> acc.bb]
             ELSE [acc EXCEPT !.total = acc.total + periodDuration]
LastPeriod(a1p, buyBox, t, acc) ==
    LET lastTime     == KeepaTime(a1p[Len(a1p) - 1])
        lastPrice    == a1p[Len(a1p)]
        cutoff90Days == t - WINDOW_90_DAYS
        periodStart  == ClipStart(lastTime, cutoff90Days)
        periodDuration == t - periodStart
    IN  IF ~(Len(a1p) >= 2) THEN acc
        ELSE IF ~(lastTime < t) THEN acc
        ELSE IF ~(periodDuration > 0) THEN acc
        ELSE IF lastPrice = OUT_OF_STOCK
             THEN [total    |-> acc.total + periodDuration,
                   stockout |-> acc.stockout + periodDuration,
                   bb       |-> IF ChannelAbsent(buyBox) THEN acc.bb
                                ELSE LET lastBBPrice == Val(buyBox)[Len(Val(buyBox))]
                                     IN  IF lastBBPrice > 0
                                         THEN acc.bb \o <<CentsToDollars(lastBBPrice)>>
                                         ELSE acc.bb]
             ELSE [acc EXCEPT !.total = acc.total + periodDuration]

\* totalPeriods, stockoutPeriods and buyBoxWhenAmazonOut after both loops.
\* Durations are in seconds here (minutes in the source): only their ratio
\* and their sign are used.
Periods(a1p, buyBox, t) ==
    LastPeriod(a1p, buyBox, t,
               WalkPairs(a1p, buyBox, t, 0, [total |-> 0, stockout |-> 0, bb |-> <<>>]))

\* Math.round((stockoutPeriods / totalPeriods) * 100), in exact arithmetic,
\* a tie rounded up as Math.round does.
MutRoundPercent(stockout, total) == (100 * stockout) \div total
RoundPercent(stockout, total) ==
    LET q == (100 * stockout) \div total
        r == (100 * stockout) % total
    IN  IF 2 * r >= total THEN q + 1 ELSE q

\* The flag of a stockout percentage.
MutFlagOfYellowAbove(pct) ==
    IF pct > 50 THEN "green"
    ELSE IF pct > 20 THEN "yellow"
    ELSE "red"
FlagOf(pct) ==
    IF pct > 50 THEN "green"
    ELSE IF pct >= 20 THEN "yellow"
    ELSE "red"

\* The median of a non-empty list of dollar amounts (each an even number of
\* half-cents, so the mean of two of them is exact).
Median(list) ==
    LET sorted == SortSeq(list, LAMBDA a, b : a < b)
        mid    == Len(sorted) \div 2
    IN  IF Len(sorted) % 2 = 0
        THEN (sorted[mid] + sorted[mid + 1]) \div 2
        ELSE sorted[mid + 1]

MutAnalyzeFallbackUnchecked(r, t) ==
    LET amazon1P      == Channel(r, "AMAZON")
        buyBox        == Channel(r, "BUY_BOX")
        newThirdParty == Channel(r, "NEW3P")
    IN  IF ChannelAbsent(amazon1P)
        THEN [stockoutPercent |-> None, realisticPrice |-> None, amazonFlag |-> None]
        ELSE
        LET p   == Periods(Val(amazon1P), buyBox, t)
            pct == IF p.total > 0 THEN Some(RoundPercent(p.stockout, p.total)) ELSE None
            flag == IF p.total > 0 THEN Some(FlagOf(Val(pct))) ELSE None
        IN  IF Len(p.bb) > 0
            THEN [stockoutPercent |-> pct,
                  realisticPrice  |-> Some(Median(p.bb)),
                  amazonFlag      |-> flag]
            ELSE IF pct = Some(0) /\ ~ChannelAbsent(newThirdParty)
            THEN [stockoutPercent |-> pct,
                  realisticPrice  |->
                      Some(CentsToDollars(Val(newThirdParty)[Len(Val(newThirdParty))])),
                  amazonFlag      |-> Some("red")]
            ELSE [stockoutPercent |-> pct, realisticPrice |-> None, amazonFlag |-> flag]
analyzeAmazonPresence(r, t) ==
    LET amazon1P      == Channel(r, "AMAZON")
        buyBox        == Channel(r, "BUY_BOX")
        newThirdParty == Channel(r, "NEW3P")
    IN  IF ChannelAbsent(amazon1P)
        THEN [stockoutPercent |-> None, realisticPrice |-> None, amazonFlag |-> None]
        ELSE
        LET p   == Periods(Val(amazon1P), buyBox, t)
            pct == IF p.total > 0 THEN Some(RoundPercent(p.stockout, p.total)) ELSE None
            flag == IF p.total > 0 THEN Some(FlagOf(Val(pct))) ELSE None
        IN  IF Len(p.bb) > 0
            THEN [stockoutPercent |-> pct,
                  realisticPrice  |-> Some(Median(p.bb)),
                  amazonFlag      |-> flag]
            ELSE IF pct = Some(0) /\ ~ChannelAbsent(newThirdParty)
                    /\ Val(newThirdParty)[Len(Val(newThirdParty))] > 0
            THEN [stockoutPercent |-> pct,
                  realisticPrice  |->
                      Some(CentsToDollars(Val(newThirdParty)[Len(Val(newThirdParty))])),
                  amazonFlag      |-> Some("red")]
            ELSE [stockoutPercent |-> pct, realisticPrice |-> None, amazonFlag |-> flag]

----------------------------------------------------------------------------
(* getSalesRankMetrics *)

MutGetSalesRankMetrics90First(r) ==
    IF IsNull(r.stats) THEN [avgSalesRank |-> None, salesRankDrops90 |-> 0]
    ELSE LET stats == Val(r.stats)
             drops == IF Truthy(stats.salesRankDrops90)
                      THEN Val(stats.salesRankDrops90) ELSE 0
             avg   == IF ~IsNull(stats.avg90) /\ Val(stats.avg90).SALES_RANK > 0
                      THEN Some(Val(stats.avg90).SALES_RANK)
                      ELSE IF ~IsNull(stats.avg) /\ Val(stats.avg).SALES_RANK > 0
                      THEN Some(Val(stats.avg).SALES_RANK)
                      ELSE None
         IN  [avgSalesRank |-> avg, salesRankDrops90 |-> drops]
getSalesRankMetrics(r) ==
    IF IsNull(r.stats) THEN [avgSalesRank |-> None, salesRankDrops90 |-> 0]
    ELSE LET stats == Val(r.stats)
             drops == IF Truthy(stats.salesRankDrops90)
                      THEN Val(stats.salesRankDrops90) ELSE 0
             avg   == IF ~IsNull(stats.avg) /\ Val(stats.avg).SALES_RANK > 0
                      THEN Some(Val(stats.avg).SALES_RANK)
                      ELSE IF ~IsNull(stats.avg90) /\ Val(stats.avg90).SALES_RANK > 0
                      THEN Some(Val(stats.avg90).SALES_RANK)
                      ELSE None
         IN  [avgSalesRank |-> avg, salesRankDrops90 |-> drops]

----------------------------------------------------------------------------
(* Fee calculation.  buy and sell are dollars (half-cents); the profit is   *)
(* in 1/20000 dollar: 100 * (sell - buy) - (15 * sell + 200 * fees in cents) *)

ProfitOf(dollars) == 20000 * dollars

calculateFBAProfit(buy, sell) ==
    LET referralFee == REFERRAL_FEE_PERCENT * sell
        totalFees   == referralFee + 200 * CLOSING_FEE + 200 * FBA_FULFILLMENT_FEE
    IN  100 * sell - 100 * buy - totalFees

MutFBMProfitFulfilledByAmazon(buy, sell) ==
    LET referralFee == REFERRAL_FEE_PERCENT * sell
        totalFees   == referralFee + 200 * CLOSING_FEE + 200 * FBA_FULFILLMENT_FEE
    IN  100 * sell - 100 * buy - totalFees
calculateFBMProfit(buy, sell) ==
    LET referralFee == REFERRAL_FEE_PERCENT * sell
        totalFees   == referralFee + 200 * CLOSING_FEE + 200 * FBM_SHIPPING_COST
    IN  100 * sell - 100 * buy - totalFees

----------------------------------------------------------------------------
(* evaluateBook: decision logic *)

\* multiplier = amazonPrice / buyPriceDollars is held as the fraction
\* [num, den]; buyPriceDollars > 0 is the caller's precondition.
MultLess(m, k) == m.num < k * m.den
MultAtLeast(m, k) == m.num >= k * m.den
\* m1 <= m2 for two fractions with positive denominators
MultLeq(m1, m2) == m1.num * m2.den <= m2.num * m1.den

\* "Determine the sell price to use"
MutSellPriceNoMin(prices, analysis) ==
    IF Truthy(analysis.realisticPrice) THEN analysis.realisticPrice
    ELSE LET avgPrice == OrElse(prices.avg180.fba,
                                OrElse(prices.avg180.newFBM, prices.avg180.used))
             currentPrice == OrElse(prices.current.fba,
                                    OrElse(prices.current.newFBM, prices.current.used))
         IN  OrElse(currentPrice, avgPrice)
SellPrice(prices, analysis) ==
    IF Truthy(analysis.realisticPrice) THEN analysis.realisticPrice
    ELSE LET avgPrice == OrElse(prices.avg180.fba,
                                OrElse(prices.avg180.newFBM, prices.avg180.used))
             currentPrice == OrElse(prices.current.fba,
                                    OrElse(prices.current.newFBM, prices.current.used))
         IN  IF Truthy(avgPrice) /\ Truthy(currentPrice)
             THEN Some(Min2(Val(avgPrice), Val(currentPrice)))
             ELSE OrElse(avgPrice, currentPrice)

\* "Step 5: Determine max rank threshold (cheaper books get relaxed rank)"
MutBuyMaxRankNeverRelaxed(buy) == BUY_MAX_SALES_RANK
BuyMaxRank(buy) ==
    IF buy < CentsToDollars(100 * BUY_CHEAP_PRICE_THRESHOLD)
    THEN BUY_MAX_SALES_RANK_CHEAP
    ELSE BUY_MAX_SALES_RANK

MutMeetsBuyAnyDrops(m, rank, drops, buy) ==
    /\ MultAtLeast(m, BUY_MULTIPLIER)
    /\ rank < BuyMaxRank(buy)
MeetsBuy(m, rank, drops, buy) ==
    /\ MultAtLeast(m, BUY_MULTIPLIER)
    /\ rank < BuyMaxRank(buy)
    /\ drops >= BUY_MIN_DROPS_90

MutMeetsReviewBuyRank(m, rank, drops) ==
    /\ MultAtLeast(m, REVIEW_MULTIPLIER)
    /\ rank < BUY_MAX_SALES_RANK
    /\ drops >= REVIEW_MIN_DROPS_90
MutMeetsReviewRankInclusive(m, rank, drops) ==
    /\ MultAtLeast(m, REVIEW_MULTIPLIER)
    /\ rank <= REVIEW_MAX_SALES_RANK
    /\ drops >= REVIEW_MIN_DROPS_90
MeetsReview(m, rank, drops) ==
    /\ MultAtLeast(m, REVIEW_MULTIPLIER)
    /\ rank < REVIEW_MAX_SALES_RANK
    /\ drops >= REVIEW_MIN_DROPS_90

\* "High-profit exception: FBM profit >= $60, rank < 1M, drops >= 10"
MutIsHighProfitAbove(fbmProfit, rank, drops) ==
    /\ ~IsNull(fbmProfit)
    /\ Val(fbmProfit) > ProfitOf(HIGH_PROFIT_MIN_FBM)
    /\ rank < HIGH_PROFIT_MAX_RANK
    /\ drops >= HIGH_PROFIT_MIN_DROPS
IsHighProfit(fbmProfit, rank, drops) ==
    /\ ~IsNull(fbmProfit)
    /\ Val(fbmProfit) >= ProfitOf(HIGH_PROFIT_MIN_FBM)
    /\ rank < HIGH_PROFIT_MAX_RANK
    /\ drops >= HIGH_PROFIT_MIN_DROPS

\* The criteria the final REJECT pushes to failedCriteria.
MutFailedCriteriaRankStrict(m, rank, drops) ==
    (IF MultLess(m, REVIEW_MULTIPLIER) THEN {"multiplier"} ELSE {})
    \cup (IF rank > REVIEW_MAX_SALES_RANK THEN {"rank"} ELSE {})
    \cup (IF drops < REVIEW_MIN_DROPS_90 THEN {"drops"} ELSE {})
FailedCriteria(m, rank, drops) ==
    (IF MultLess(m, REVIEW_MULTIPLIER) THEN {"multiplier"} ELSE {})
    \cup (IF rank >= REVIEW_MAX_SALES_RANK THEN {"rank"} ELSE {})
    \cup (IF drops < REVIEW_MIN_DROPS_90 THEN {"drops"} ELSE {})

\* A reason string, by its kind and the criteria it names.
Reason(kind, criteria) == [kind |-> kind, criteria |-> criteria]

\* The result object as evaluateBook initialises it.
EmptyResult ==
    [decision |-> "REJECT", reason |-> Reason("", {}),
     amazonPrice |-> None, fbaProfit |-> None, fbmProfit |-> None,
     salesRank |-> None, salesRankDrops90 |-> 0,
     amazonFlag |-> None, multiplier |-> None]

\* "Step 6: Apply decision thresholds", once every knockout has passed.
Tiers(res, m, rank, drops, buy) ==
    LET meetsBuy     == MeetsBuy(m, rank, drops, buy)
        meetsReview  == MeetsReview(m, rank, drops)
        isHighProfit == IsHighProfit(res.fbmProfit, rank, drops)
    IN  IF meetsBuy \/ isHighProfit
        THEN [res EXCEPT !.decision = "BUY",
                         !.reason = IF isHighProfit THEN Reason("HighProfit", {})
                                    ELSE Reason("Metrics", {})]
        ELSE IF meetsReview
        THEN [res EXCEPT !.decision = "REVIEW", !.reason = Reason("Metrics", {})]
        ELSE LET failed == FailedCriteria(m, rank, drops)
             IN  [res EXCEPT !.decision = "REJECT",
                             !.reason = IF failed # {}
                                        THEN Reason("FailedCriteria", failed)
                                        ELSE Reason("Metrics", {})]

\* The rank knockout: "Knockout: Rank > 3M"
RankKnockout(rank) == rank > KNOCKOUT_MAX_SALES_RANK

\* Steps 3 and 4 and the tiers: from the sell price on.
MutPricedDropsFirst(res1, amazonPrice, buy, rank, drops) ==
    LET m    == [num |-> amazonPrice, den |-> buy]
        res2 == [res1 EXCEPT !.amazonPrice = Some(amazonPrice), !.multiplier = Some(m)]
        res3 == [res2 EXCEPT !.fbaProfit = Some(calculateFBAProfit(buy, amazonPrice)),
                             !.fbmProfit = Some(calculateFBMProfit(buy, amazonPrice))]
    IN  IF drops = 0
        THEN [res3 EXCEPT !.reason = Reason("NoSales", {"drops"})]
        ELSE IF MultLess(m, REVIEW_MULTIPLIER)
        THEN [res2 EXCEPT !.reason = Reason("MultiplierKnockout", {"multiplier"})]
        ELSE Tiers(res3, m, rank, drops, buy)
Priced(res1, amazonPrice, buy, rank, drops) ==
    LET m    == [num |-> amazonPrice, den |-> buy]
        res2 == [res1 EXCEPT !.amazonPrice = Some(amazonPrice), !.multiplier = Some(m)]
        res3 == [res2 EXCEPT !.fbaProfit = Some(calculateFBAProfit(buy, amazonPrice)),
                             !.fbmProfit = Some(calculateFBMProfit(buy, amazonPrice))]
    IN  IF MultLess(m, REVIEW_MULTIPLIER)
        THEN [res2 EXCEPT !.reason = Reason("MultiplierKnockout", {"multiplier"})]
        ELSE IF drops = 0
        THEN [res3 EXCEPT !.reason = Reason("NoSales", {"drops"})]
        ELSE Tiers(res3, m, rank, drops, buy)

\* evaluateBook(raw, buyPriceDollars), called when Date.now() = t.
\* asin, weightLbs and binding are copied from the snapshot and take no part
\* in the decision; they are left out.
evaluateBook(r, buy, t) ==
    LET metrics == getSalesRankMetrics(r)
        res0 == [EmptyResult EXCEPT !.salesRank = metrics.avgSalesRank,
                                    !.salesRankDrops90 = metrics.salesRankDrops90]
    IN  IF ~Truthy(metrics.avgSalesRank)
        THEN [res0 EXCEPT !.reason = Reason("UnknownRank", {"rank"})]
        ELSE IF RankKnockout(Val(metrics.avgSalesRank))
        THEN [res0 EXCEPT !.reason = Reason("RankKnockout", {"rank"})]
        ELSE
        LET prices         == getAmazonPrices(r)
            amazonAnalysis == analyzeAmazonPresence(r, t)
            res1           == [res0 EXCEPT !.amazonFlag = amazonAnalysis.amazonFlag]
            amazonPrice    == SellPrice(prices, amazonAnalysis)
        IN  IF ~Truthy(amazonPrice)
            THEN [res1 EXCEPT !.reason = Reason("NoPrice", {"price"})]
            ELSE Priced(res1, Val(amazonPrice), buy,
                        Val(metrics.avgSalesRank), metrics.salesRankDrops90)

----------------------------------------------------------------------------
(* evaluate.ts: the body of the loop of evaluatePendingBooks, for one book *)

\* Math.round(x * 100) of a dollar amount (half-cents): cents, a tie upwards
DollarsToCents(h) == (h + 1) \div 2
\* Math.round(p * 100) of a profit (1/20000 dollar): cents, a tie upwards
ProfitToCents(p) == (p + 100) \div 200
\* x != null ? Math.round(x * 100) : undefined
OptDollarsToCents(x) == IF IsNull(x) THEN None ELSE Some(DollarsToCents(Val(x)))
OptProfitToCents(x) == IF IsNull(x) THEN None ELSE Some(ProfitToCents(Val(x)))

\* const buyPriceDollars = (book.price + book.shipping) / 100
BuyPriceDollars(b) == CentsToDollars(b.price + b.shipping)

\* The fields of the update when there is no Keepa data: the decision alone.
NoDataEvaluation ==
    [decision |-> "REJECT", amazon_price |-> None, sales_rank |-> None,
     sales_rank_drops_90 |-> None, fba_profit |-> None, fbm_profit |-> None,
     amazon_flag |-> None]

\* The fields of the update after evaluateBook returned res.
StoredEvaluation(res) ==
    [decision |-> res.decision,
     amazon_price |-> OptDollarsToCents(res.amazonPrice),
     sales_rank |-> res.salesRank,
     sales_rank_drops_90 |-> Some(res.salesRankDrops90),
     fba_profit |-> OptProfitToCents(res.fbaProfit),
     fbm_profit |-> OptProfitToCents(res.fbmProfit),
     amazon_flag |-> res.amazonFlag]

----------------------------------------------------------------------------
(* Snapshots *)

\* The clock of the runs: 2026-01-01T00:00:00Z, as a Keepa minute offset and
\* in seconds.
NowOffset == 5479 * 1440
Clock0 == KeepaTime(NowOffset)
\* The Keepa time offset d days before the clock's day.
DaysAgo(d) == NowOffset - d * 1440

NoStatsAvg == [AMAZON |-> -1, NEW3P |-> -1, USED |-> -1, SALES_RANK |-> -1, NEW_FBA |-> -1]

\* A KeepaProductRaw with the csv channels and the stats given.
Snapshot(amazon, new, used, fba, bb, stats) ==
    [csv |-> Some([AMAZON |-> amazon, NEW3P |-> new, USED |-> used,
                   NEW_FBA |-> fba, BUY_BOX |-> bb]),
     stats |-> stats]

\* stats with a 180-day average rank (-1: none) and a drop count.
RankStats(rank, drops) ==
    Some([avg |-> Some([NoStatsAvg EXCEPT !.SALES_RANK = rank]),
          avg90 |-> None,
          salesRankDrops90 |-> Some(drops)])

\* A channel whose only sample, 10 days old, has the price given (cents);
\* None when the price is 0.
OneSample(cents) == IF cents = 0 THEN None ELSE Some(<<DaysAgo(10), cents>>)

----------------------------------------------------------------------------
(* The decision inputs: a snapshot whose sell price is the current new-FBA  *)
(* price, over the rank, drop count, sell price and buy price values at and *)
(* around every threshold of config.ts.                                     *)

RankValues == {-1, 500000, 900000, 1000000, 1500000, 1800000, 2000000,
               2200000, 2500000, 3000000, 3500000}
DropValues == {0, 1, 2, 3, 5, 10, 12}
\* cents; 0: no price
SellValues == {0, 1500, 1999, 2000, 2200, 3000, 3500, 3600, 8000, 10100, 23086}
\* cents, price + shipping
BuyValues == {500, 600, 2000, 2005, 11543}

DecisionSnapshot(rank, drops, sell) ==
    Snapshot(None, None, None, OneSample(sell), None, RankStats(rank, drops))

InitDecision ==
    /\ \E rank \in RankValues, drops \in DropValues, sell \in SellValues :
           raw = DecisionSnapshot(rank, drops, sell)
    /\ buyPrice \in {CentsToDollars(b) : b \in BuyValues}
    /\ now = Clock0
    /\ result = None
    /\ presence = None
    /\ prev = None
    /\ book = None /\ fetched = None /\ stored = None /\ logged = None
    /\ sellPrice = None /\ isbn = None /\ ret = None
    /\ IoIdle
    /\ pc = "ready"

\* One call of evaluateBook on the snapshot and the buy price at hand.
EvaluateBook ==
    /\ pc = "ready"
    /\ result' = Some(evaluateBook(raw, buyPrice, now))
    /\ pc' = "done"
    /\ UNCHANGED <<raw, buyPrice, now, presence, prev, batchVars, helperVars, ioVars>>

\* The same book evaluated again after its listing price or its Amazon price
\* changed: the snapshot keeps its stats (rank, drops), evaluate.ts line 40-43.
\* The result of the first call is kept in prev.
Reprice ==
    /\ pc = "done"
    /\ \E sell \in SellValues, b \in BuyValues :
          /\ raw' = [raw EXCEPT !.csv = Some([Val(raw.csv) EXCEPT !.NEW_FBA = OneSample(sell)])]
          /\ buyPrice' = CentsToDollars(b)
          /\ result' = Some(evaluateBook(raw', buyPrice', now))
    /\ prev' = result
    /\ pc' = "again"
    /\ UNCHANGED <<now, presence, batchVars, helperVars, ioVars>>

NextDecision == EvaluateBook \/ Reprice

SpecDecision == InitDecision /\ [][NextDecision]_vars

----------------------------------------------------------------------------
(* The price inputs: one pending book and what the Keepa lookup returned for *)
(* it, nothing or a snapshot with each channel null, empty, truncated to one *)
(* entry or holding samples, and with or without stats and averages.         *)

\* Amazon 1P: in stock all along, or out of stock from 60 to 20 days ago.
AmazonChannels ==
    {None, Some(<<DaysAgo(100)>>),
     Some(<<DaysAgo(100), 2500, DaysAgo(10), 2400>>),
     Some(<<DaysAgo(100), 2500, DaysAgo(60), OUT_OF_STOCK, DaysAgo(20), 2400>>)}
BuyBoxChannels ==
    {None, Some(<<1900>>),
     Some(<<DaysAgo(50), 1900, DaysAgo(30), 2300, DaysAgo(5), 2600>>)}
New3PChannels == {None, Some(<<>>), Some(<<1800>>), Some(<<DaysAgo(10), 1800>>)}
UsedChannels == {None, Some(<<DaysAgo(10)>>), Some(<<DaysAgo(10), 900>>)}
NewFbaChannels == {None, Some(<<2100>>), Some(<<DaysAgo(10), 2100>>)}

StatsAvgs ==
    {None} \cup
    {Some([AMAZON |-> -1, NEW3P |-> n, USED |-> u, SALES_RANK |-> r, NEW_FBA |-> f]) :
        n \in {-1, 1700}, u \in {-1, 800}, r \in {-1, 500000}, f \in {-1, 2000, 2300}}
PriceStats ==
    {None} \cup
    {Some([avg |-> a, avg90 |-> None, salesRankDrops90 |-> d]) :
        a \in StatsAvgs, d \in {None, Some(0), Some(5)}}

PriceSnapshots ==
    {[csv |-> None, stats |-> st] : st \in PriceStats} \cup
    {Snapshot(a, n, u, f, bb, st) :
        a \in AmazonChannels, n \in New3PChannels, u \in UsedChannels,
        f \in NewFbaChannels, bb \in BuyBoxChannels, st \in PriceStats}

\* A KeepaProductRaw without csv and without stats; the value of raw while no
\* snapshot has been handed to evaluateBook.
EmptySnapshot == [csv |-> None, stats |-> None]

InitPrice ==
    /\ book = Some([price |-> 400, shipping |-> 0])
    /\ fetched \in {None} \cup {Some(sn) : sn \in PriceSnapshots}
    /\ raw = EmptySnapshot
    /\ buyPrice = 0
    /\ now = Clock0
    /\ result = None
    /\ presence = None
    /\ prev = None
    /\ stored = None
    /\ logged = None
    /\ sellPrice = None /\ isbn = None /\ ret = None
    /\ IoIdle
    /\ pc = "ready"

\* The body of the loop for the book whose lookup returned nothing:
\* REJECT is stored and "no Keepa data" is logged.
EvaluateNoData ==
    /\ pc = "ready"
    /\ ~IsNull(book)
    /\ IsNull(fetched)
    /\ stored' = Some(NoDataEvaluation)
    /\ logged' = Some(Reason("NoKeepaData", {"snapshot"}))
    /\ pc' = "done"
    /\ UNCHANGED <<raw, buyPrice, now, result, presence, prev, book, fetched, helperVars, ioVars>>

\* The body of the loop for the book whose lookup returned a snapshot:
\* evaluateBook is called, its result stored and its reason logged.
EvaluatePending ==
    /\ pc = "ready"
    /\ ~IsNull(book)
    /\ ~IsNull(fetched)
    /\ raw' = Val(fetched)
    /\ buyPrice' = BuyPriceDollars(Val(book))
    /\ result' = Some(evaluateBook(raw', buyPrice', now))
    /\ stored' = Some(StoredEvaluation(Val(result')))
    /\ logged' = Some(Val(result').reason)
    /\ pc' = "done"
    /\ UNCHANGED <<now, presence, prev, book, fetched, helperVars, ioVars>>

NextPrice == EvaluateNoData \/ EvaluatePending

SpecPrice == InitPrice /\ [][NextPrice]_vars

----------------------------------------------------------------------------
(* What a state says about the finished call *)

Done == pc \in {"done", "again"} /\ ~IsNull(result)
Res == Val(result)
Metrics == getSalesRankMetrics(raw)
Rank == Metrics.avgSalesRank
Drops == Metrics.salesRankDrops90
\* the sell price the call arrives at, None when there is none
Sell == SellPrice(getAmazonPrices(raw), analyzeAmazonPresence(raw, now))
Mult == [num |-> Val(Sell), den |-> buyPrice]
FbmProfit == calculateFBMProfit(buyPrice, Val(Sell))

\* no knockout fires
NoKnockout ==
    /\ Truthy(Rank)
    /\ ~(Val(Rank) > KNOCKOUT_MAX_SALES_RANK)
    /\ Truthy(Sell)
    /\ ~MultLess(Mult, REVIEW_MULTIPLIER)
    /\ Drops # 0

----------------------------------------------------------------------------
(* Claims about the decision classifier *)

\* C1: the knockouts are checked in the order unknown rank, rank above
\* 3,000,000, no sell price, multiplier below 4, drops90 = 0; the first that
\* matches ends the call with REJECT and its own reason, and none is cited
\* when none matches.  An average rank of 3,500,000 is REJECT citing the rank
\* whatever the prices are.
C1_KnockoutOrder ==
    Done =>
        /\ IF ~Truthy(Rank)
           THEN Res.decision = "REJECT" /\ Res.reason = Reason("UnknownRank", {"rank"})
           ELSE IF Val(Rank) > 3000000
           THEN Res.decision = "REJECT" /\ Res.reason = Reason("RankKnockout", {"rank"})
           ELSE IF ~Truthy(Sell)
           THEN Res.decision = "REJECT" /\ Res.reason = Reason("NoPrice", {"price"})
           ELSE IF Val(Sell) < 4 * buyPrice
           THEN Res.decision = "REJECT"
                /\ Res.reason = Reason("MultiplierKnockout", {"multiplier"})
           ELSE IF Drops = 0
           THEN Res.decision = "REJECT" /\ Res.reason = Reason("NoSales", {"drops"})
           ELSE Res.reason.kind \in {"Metrics", "HighProfit", "FailedCriteria"}
        /\ Rank = Some(3500000) =>
               Res.decision = "REJECT" /\ Res.reason.kind = "RankKnockout"

\* Two knockouts match (multiplier 3x and no drops) and the earlier one, the
\* multiplier, is the one cited; buy $5.00, sell $15.00.
C1_Witness ==
    /\ Done
    /\ Truthy(Rank) /\ Val(Rank) <= 3000000
    /\ buyPrice = CentsToDollars(500) /\ Sell = Some(CentsToDollars(1500))
    /\ Drops = 0
    /\ Res.decision = "REJECT" /\ Res.reason.kind = "MultiplierKnockout"

\* the high-profit condition of the claim C2, on the inputs
HighProfitInputs ==
    /\ Truthy(Rank) /\ Truthy(Sell)
    /\ FbmProfit >= 20000 * 60
    /\ Val(Rank) < 1000000
    /\ Drops >= 10

\* C2 as stated: merchantProfit >= 60, rank < 1,000,000 and drops90 >= 10
\* give BUY whatever the multiplier is.
C2_Original == (Done /\ HighProfitInputs) => Res.decision = "BUY"

\* C2, amended: when no knockout fires (so the multiplier is at least 4),
\* merchantProfit >= 60, rank < 1,000,000 and drops90 >= 10 give BUY also for
\* a multiplier below 6; a multiplier below 4 is rejected by the multiplier
\* knockout whatever the profit is.
C2_HighProfitOverride ==
    Done =>
        /\ (NoKnockout /\ HighProfitInputs) => Res.decision = "BUY"
        /\ (Truthy(Rank) /\ Val(Rank) <= 3000000 /\ Truthy(Sell)
            /\ Val(Sell) < 4 * buyPrice) => Res.decision = "REJECT"

\* The override decides: multiplier in [4, 6), FBM profit exactly $60.00
\* (buy $20.05, sell $101.00), and BUY.
C2_Witness ==
    /\ Done /\ NoKnockout /\ HighProfitInputs
    /\ Val(Sell) < 6 * buyPrice
    /\ FbmProfit = 20000 * 60
    /\ Res.decision = "BUY" /\ Res.reason.kind = "HighProfit"

\* the rank cap of the normal BUY tier, as the claim C3 states it
ClaimedBuyCap == IF buyPrice < CentsToDollars(600) THEN 2000000 ELSE 1500000

\* C3: when no knockout fires, multiplier >= 6, drops90 >= 3 and rank below
\* the cap give BUY; the cap is 2,000,000 for a buy price below $6 and
\* 1,500,000 otherwise, so that from $6 on a rank of 1,500,000 or more is
\* never BUY.  Buy $5.00, sell $35.00, rank 900,000, drops 5 is BUY.
C3_NormalBuy ==
    (Done /\ NoKnockout) =>
        /\ (Val(Sell) >= 6 * buyPrice /\ Drops >= 3 /\ Val(Rank) < ClaimedBuyCap)
               => Res.decision = "BUY"
        /\ (buyPrice >= CentsToDollars(600) /\ Val(Rank) >= 1500000)
               => Res.decision # "BUY"
        /\ (buyPrice = CentsToDollars(500) /\ Sell = Some(CentsToDollars(3500))
            /\ Rank = Some(900000) /\ Drops = 5) => Res.decision = "BUY"

\* A cheap book is BUY at a rank between the two caps.
C3_Witness ==
    /\ Done /\ NoKnockout
    /\ buyPrice < CentsToDollars(600)
    /\ Val(Rank) >= 1500000 /\ Val(Rank) < 2000000
    /\ Val(Sell) >= 6 * buyPrice /\ Drops >= 3
    /\ Res.decision = "BUY"

\* neither BUY condition holds, on the inputs
NoBuyInputs ==
    /\ ~(Val(Sell) >= 6 * buyPrice /\ Drops >= 3 /\ Val(Rank) < ClaimedBuyCap)
    /\ ~(FbmProfit >= 20000 * 60 /\ Val(Rank) < 1000000 /\ Drops >= 10)

\* C4: when no knockout fires and neither BUY condition holds, the decision
\* is REVIEW if multiplier >= 4, rank < 2,500,000 and drops90 >= 2, and
\* REJECT otherwise.  Buy $5.00, sell $22.00, rank 2,200,000, drops 2 is
\* REVIEW.
C4_Review ==
    (Done /\ NoKnockout /\ NoBuyInputs) =>
        /\ Res.decision \in {"REVIEW", "REJECT"}
        /\ Res.decision = "REVIEW" <=>
               (Val(Sell) >= 4 * buyPrice /\ Val(Rank) < 2500000 /\ Drops >= 2)

C4_Witness ==
    /\ Done /\ NoKnockout /\ NoBuyInputs
    /\ buyPrice = CentsToDollars(500) /\ Sell = Some(CentsToDollars(2200))
    /\ Rank = Some(2200000) /\ Drops = 2
    /\ Res.decision = "REVIEW"

\* C5: of two evaluations with the same average rank and the same drops90,
\* if the one with the smaller multiplier is BUY, the one with the larger
\* multiplier is not REJECT.
C5_Monotonic ==
    (/\ pc = "again"
     /\ Val(prev).salesRank = Res.salesRank
     /\ Val(prev).salesRankDrops90 = Res.salesRankDrops90
     /\ ~IsNull(Val(prev).multiplier) /\ ~IsNull(Res.multiplier)
     /\ MultLeq(Val(Val(prev).multiplier), Val(Res.multiplier))
     /\ Val(prev).decision = "BUY")
        => Res.decision # "REJECT"

\* The multiplier grew, through a higher buy price and a still higher sell
\* price, and the decision fell from BUY, to REVIEW.
C5_Witness ==
    /\ pc = "again"
    /\ Val(prev).salesRank = Res.salesRank
    /\ Val(prev).salesRankDrops90 = Res.salesRankDrops90
    /\ ~IsNull(Val(prev).multiplier) /\ ~IsNull(Res.multiplier)
    /\ MultLeq(Val(Val(prev).multiplier), Val(Res.multiplier))
    /\ ~MultLeq(Val(Res.multiplier), Val(Val(prev).multiplier))
    /\ Val(prev).decision = "BUY"
    /\ Res.decision = "REVIEW"

\* the review criteria the inputs do not meet
UnmetCriteria ==
    (IF Val(Sell) < 4 * buyPrice THEN {"multiplier"} ELSE {})
    \cup (IF Val(Rank) >= 2500000 THEN {"rank"} ELSE {})
    \cup (IF Drops < 2 THEN {"drops"} ELSE {})

\* C6: a REJECT returned after all knockouts passed has a reason that names
\* every unmet review criterion and no criterion that is met.
C6_RejectReason ==
    (Done /\ NoKnockout /\ Res.decision = "REJECT") =>
        /\ Res.reason.kind = "FailedCriteria"
        /\ Res.reason.criteria = UnmetCriteria

\* A REJECT that names two criteria, the rank and the drops, and not the
\* multiplier, which is met.
C6_Witness ==
    /\ Done /\ NoKnockout /\ Res.decision = "REJECT"
    /\ Res.reason = Reason("FailedCriteria", {"rank", "drops"})
    /\ Val(Sell) >= 4 * buyPrice

----------------------------------------------------------------------------
(* Claims about missing data and the sell price *)

\* a channel that is null, empty or truncated to fewer than two entries
Unusable(ch) == IsNull(ch) \/ Len(Val(ch)) < 2

\* the snapshot with every unusable channel replaced by null
Nullified(r) ==
    IF IsNull(r.csv) THEN r
    ELSE [r EXCEPT !.csv =
             Some([ch \in DOMAIN Val(r.csv) |->
                      IF Unusable(Val(r.csv)[ch]) THEN None ELSE Val(r.csv)[ch]])]

NoPresence == [stockoutPercent |-> None, realisticPrice |-> None, amazonFlag |-> None]

\* C7: missing data ends in REJECT with a reason, never in a failure: every
\* processed book has a stored decision and a logged reason; an absent
\* snapshot, an absent average rank, an absent sell price and drops90 = 0 are
\* each REJECT, with the reason of a knockout; and a channel that is null,
\* empty or has fewer than two entries counts as null for getAmazonPrices,
\* analyzeAmazonPresence and evaluateBook.
C7_MissingData ==
    pc = "done" =>
        /\ ~IsNull(stored) /\ ~IsNull(logged) /\ Val(logged).kind # ""
        /\ IsNull(fetched) =>
               /\ Val(stored).decision = "REJECT"
               /\ Val(logged).kind = "NoKeepaData"
        /\ ~IsNull(fetched) =>
               /\ (~Truthy(Rank) \/ ~Truthy(Sell) \/ Drops = 0) =>
                      /\ Res.decision = "REJECT"
                      /\ Val(stored).decision = "REJECT"
                      /\ Val(logged) = Res.reason
                      /\ Res.reason.kind \in {"UnknownRank", "RankKnockout", "NoPrice",
                                              "MultiplierKnockout", "NoSales"}
               /\ Unusable(Channel(raw, "NEW_FBA")) => IsNull(getAmazonPrices(raw).current.fba)
               /\ Unusable(Channel(raw, "NEW3P")) => IsNull(getAmazonPrices(raw).current.newFBM)
               /\ Unusable(Channel(raw, "USED")) => IsNull(getAmazonPrices(raw).current.used)
               /\ Unusable(Channel(raw, "AMAZON")) =>
                      analyzeAmazonPresence(raw, now) = NoPresence
               /\ getAmazonPrices(raw) = getAmazonPrices(Nullified(raw))
               /\ analyzeAmazonPresence(raw, now) = analyzeAmazonPresence(Nullified(raw), now)
               /\ Res = evaluateBook(Nullified(raw), buyPrice, now)

\* The only price channel with data is truncated to one entry, the rank is
\* known, and the book is rejected for want of a price.
C7_Witness ==
    /\ pc = "done" /\ ~IsNull(fetched)
    /\ Truthy(Rank)
    /\ Channel(raw, "NEW_FBA") = Some(<<2100>>)
    /\ Channel(raw, "NEW3P") = Some(<<>>)
    /\ IsNull(Channel(raw, "USED"))
    /\ Res.decision = "REJECT" /\ Res.reason.kind = "NoPrice"
    /\ Val(stored).decision = "REJECT"

\* the call reached the price step
PriceStage == Done /\ Truthy(Rank) /\ Val(Rank) <= 3000000

Prices == getAmazonPrices(raw)
Realistic == analyzeAmazonPresence(raw, now).realisticPrice
FirstNonNull(a, b, c) == IF ~IsNull(a) THEN a ELSE IF ~IsNull(b) THEN b ELSE c
CurrentPick == FirstNonNull(Prices.current.fba, Prices.current.newFBM, Prices.current.used)
AvgPick == FirstNonNull(Prices.avg180.fba, Prices.avg180.newFBM, Prices.avg180.used)

\* the prices a channel has: its current price and its 180-day average
ChannelPrices(ch) == {Prices.current[ch], Prices.avg180[ch]} \ {None}
\* the first channel, in priority order, that has a price
BestChannel ==
    IF ChannelPrices("fba") # {} THEN "fba"
    ELSE IF ChannelPrices("newFBM") # {} THEN "newFBM"
    ELSE "used"

\* C8 as stated: the sell price is the realistic price when there is one, and
\* otherwise a price of the single channel that wins the priority new-FBA,
\* third-party-new, used.
C8_Original ==
    PriceStage =>
        IF ~IsNull(Realistic) THEN Res.amazonPrice = Realistic
        ELSE IF ChannelPrices(BestChannel) = {} THEN IsNull(Res.amazonPrice)
        ELSE Res.amazonPrice \in ChannelPrices(BestChannel)

\* C8, amended: the sell price is the realistic price when there is one;
\* otherwise the 180-day average price and the current price are each chosen
\* by the priority new-FBA, third-party-new, used (first non-null), and the
\* sell price is the smaller of the two, or the one that exists, or null.
C8_SellPrice ==
    PriceStage =>
        IF ~IsNull(Realistic) THEN Res.amazonPrice = Realistic
        ELSE IF ~IsNull(AvgPick) /\ ~IsNull(CurrentPick)
        THEN Res.amazonPrice = Some(Min2(Val(AvgPick), Val(CurrentPick)))
        ELSE IF ~IsNull(AvgPick) THEN Res.amazonPrice = AvgPick
        ELSE Res.amazonPrice = CurrentPick

\* No realistic price; the current price comes from new-FBA, the average from
\* third-party-new, and the smaller one, the average, is the sell price.
C8_Witness ==
    /\ PriceStage
    /\ IsNull(Realistic)
    /\ CurrentPick = Prices.current.fba /\ ~IsNull(CurrentPick)
    /\ IsNull(Prices.avg180.fba) /\ AvgPick = Prices.avg180.newFBM /\ ~IsNull(AvgPick)
    /\ Val(AvgPick) < Val(CurrentPick)
    /\ Res.amazonPrice = AvgPick

----------------------------------------------------------------------------
(* The presence inputs: an Amazon 1P history of up to MaxSamples samples at  *)
(* non-decreasing times before, at and after the borders of the 90-day       *)
(* window, in stock or out of stock, and a clock on or off the minute.       *)

MaxSamples == 3

\* days before the clock's day; -1 is a day after it
SampleDays == {100, 90, 45, 18, 10, 0, -1}
\* cents
SamplePrices == {OUT_OF_STOCK, 2500}

\* the chronological sample lists of length k: <<days ago, price>> each
SampleLists(k) ==
    {l \in [1..k -> SampleDays \X SamplePrices] :
        \A i \in 1..(k - 1) : l[i][1] >= l[i + 1][1]}

\* the flat csv array [time, price, time, price, ...] of a sample list
FlatCsv(l) ==
    [i \in 1..(2 * Len(l)) |->
        IF i % 2 = 1 THEN DaysAgo(l[(i + 1) \div 2][1]) ELSE l[i \div 2][2]]

Amazon1PHistories ==
    {None, Some(<<>>)} \cup
    {Some(FlatCsv(l)) : l \in UNION {SampleLists(k) : k \in 1..MaxSamples}}

PresenceBuyBoxes ==
    {None,
     Some(<<DaysAgo(50), 1900, DaysAgo(10), 2300, DaysAgo(5), 2600>>),
     Some(<<DaysAgo(50), 1900, DaysAgo(30), 2300>>)}

\* the third-party-new channel: null, a current offer, or no offer now
PresenceNew3P ==
    {None, Some(<<DaysAgo(10), 1800>>), Some(<<DaysAgo(10), -1>>)}

\* Date.now(): on the minute, or half a minute later
Clocks == {Clock0, Clock0 + 30}

InitPresence ==
    /\ \E a \in Amazon1PHistories, bb \in PresenceBuyBoxes, new \in PresenceNew3P :
           raw = Snapshot(a, new, None, None, bb, None)
    /\ now \in Clocks
    /\ buyPrice = 0
    /\ result = None
    /\ presence = None
    /\ prev = None
    /\ book = None /\ fetched = None /\ stored = None /\ logged = None
    /\ sellPrice = None /\ isbn = None /\ ret = None
    /\ IoIdle
    /\ pc = "ready"

\* One call of analyzeAmazonPresence on the snapshot at hand.
AnalyzePresence ==
    /\ pc = "ready"
    /\ presence' = Some(analyzeAmazonPresence(raw, now))
    /\ pc' = "analyzed"
    /\ UNCHANGED <<raw, buyPrice, now, result, prev, batchVars, helperVars, ioVars>>

NextPresence == AnalyzePresence

SpecPresence == InitPresence /\ [][NextPresence]_vars

----------------------------------------------------------------------------
(* Claims about the stockout percentage *)

Analyzed == pc = "analyzed"
Pres == Val(presence)
\* the Amazon 1P history of the snapshot, <<>> when the channel is null
History == IF IsNull(Channel(raw, "AMAZON")) THEN <<>> ELSE Val(Channel(raw, "AMAZON"))
NumSamples == Len(History) \div 2
SampleTime(k) == KEEPA_BASE_TIME + 60 * History[2 * k - 1]
SamplePrice(k) == History[2 * k]
WindowStart == now - 90 * 24 * 60 * 60

\* the length of [lo, hi) inside the window [now - 90 days, now]
Clipped(lo, hi) == Max2(0, Min2(hi, now) - Max2(lo, WindowStart))

\* the interval of sample k: up to the next sample, or up to now for the last
IntervalLength(k) ==
    Clipped(SampleTime(k), IF k < NumSamples THEN SampleTime(k + 1) ELSE now)

RECURSIVE SumLengths(_, _)
\* the sum of the interval lengths of the samples 1..k that are in the set ks
SumLengths(k, ks) ==
    IF k = 0 THEN 0
    ELSE SumLengths(k - 1, ks) + (IF k \in ks THEN IntervalLength(k) ELSE 0)

TotalDuration == SumLengths(NumSamples, 1..NumSamples)
StockoutDuration ==
    SumLengths(NumSamples, {k \in 1..NumSamples : SamplePrice(k) = -1})

\* C9: stockoutPercent is null or an integer in [0, 100], and it is null
\* exactly when the duration observed inside the trailing 90-day window is 0.
C9_PercentRange ==
    Analyzed =>
        /\ IsNull(Pres.stockoutPercent)
           \/ (Val(Pres.stockoutPercent) \in Int
               /\ Val(Pres.stockoutPercent) >= 0 /\ Val(Pres.stockoutPercent) <= 100)
        /\ IsNull(Pres.stockoutPercent) <=> TotalDuration = 0

\* A history that lies partly before the window and is partly out of stock
\* gets a percentage strictly between 0 and 100.
C9_Witness ==
    /\ Analyzed
    /\ NumSamples = MaxSamples
    /\ SampleTime(1) < WindowStart
    /\ ~IsNull(Pres.stockoutPercent)
    /\ Val(Pres.stockoutPercent) > 0 /\ Val(Pres.stockoutPercent) < 100

----------------------------------------------------------------------------
(* Claims about the durations the two loops add *)

BuyBoxHistory == Channel(raw, "BUY_BOX")
ZeroPeriods == [total |-> 0, stockout |-> 0, bb |-> <<>>]
\* what the pair-loop iteration of sample k adds to empty accumulators
PairAdded(k) == PairStep(History, BuyBoxHistory, now, 2 * (k - 1), ZeroPeriods)
\* what the last-period block adds to empty accumulators
LastAdded == LastPeriod(History, BuyBoxHistory, now, ZeroPeriods)
\* the accumulators after both loops
Accumulated == Periods(History, BuyBoxHistory, now)

RECURSIVE SumPairAdded(_)
\* the total added by the pair-loop iterations of the samples 1..k
SumPairAdded(k) == IF k = 0 THEN 0 ELSE SumPairAdded(k - 1) + PairAdded(k).total

\* the open interval from the last sample to now, clipped to the window
LastOpenInterval == now - Max2(SampleTime(NumSamples), WindowStart)

\* C11: the interval from the last Amazon 1P sample to now is counted exactly
\* once (by the last-period block and by no iteration of the pair loop), every
\* duration added to totalDuration or stockoutDuration is strictly positive
\* (an iteration adds a positive duration or nothing), and for a chronological
\* series totalDuration never exceeds the 90 days of the window.
C11_Durations ==
    (Analyzed /\ NumSamples >= 1) =>
        /\ \A k \in 1..(NumSamples - 1) :
               /\ PairAdded(k).total >= 0
               /\ PairAdded(k).stockout \in {0, PairAdded(k).total}
               /\ PairAdded(k).total <= Max2(0, SampleTime(k + 1) - SampleTime(k))
        /\ LastAdded.total >= 0
        /\ LastAdded.stockout \in {0, LastAdded.total}
        /\ LastAdded.total = IF SampleTime(NumSamples) < now THEN LastOpenInterval ELSE 0
        /\ Accumulated.total = SumPairAdded(NumSamples - 1) + LastAdded.total
        /\ Accumulated.total <= 90 * 24 * 60 * 60
        /\ Accumulated.stockout <= Accumulated.total

\* A history from before the window to 10 days ago: the pair loop adds the 80
\* days up to the last sample, the last-period block the 10 days after it, and
\* the total is the whole window.
C11_Witness ==
    /\ Analyzed
    /\ NumSamples = MaxSamples
    /\ SampleTime(1) < WindowStart
    /\ SampleTime(NumSamples) = now - 10 * 24 * 60 * 60
    /\ LastAdded.total = 10 * 24 * 60 * 60
    /\ SumPairAdded(NumSamples - 1) = 80 * 24 * 60 * 60
    /\ Accumulated.total = 90 * 24 * 60 * 60
    /\ ~IsNull(Pres.stockoutPercent)

----------------------------------------------------------------------------
(* Claims about the flag *)

\* C12: amazonFlag is "green" when stockoutPercent > 50, "yellow" when
\* 20 <= stockoutPercent <= 50, "red" when stockoutPercent < 20, and null
\* exactly when stockoutPercent is null.
C12_Flag ==
    Analyzed =>
        /\ IsNull(Pres.amazonFlag) <=> IsNull(Pres.stockoutPercent)
        /\ ~IsNull(Pres.stockoutPercent) =>
              LET pct == Val(Pres.stockoutPercent)
              IN  /\ pct > 50 => Pres.amazonFlag = Some("green")
                  /\ (20 <= pct /\ pct <= 50) => Pres.amazonFlag = Some("yellow")
                  /\ pct < 20 => Pres.amazonFlag = Some("red")

\* Out of stock for the last 18 of the 90 days: exactly 20 percent, yellow.
C12_Witness ==
    /\ Analyzed
    /\ TotalDuration = 90 * 24 * 60 * 60
    /\ StockoutDuration = 18 * 24 * 60 * 60
    /\ Pres.stockoutPercent = Some(20)
    /\ Pres.amazonFlag = Some("yellow")

----------------------------------------------------------------------------
(* Claims about the realistic price *)

New3PHistory == Channel(raw, "NEW3P")
\* the current third-party-new price, in cents, null when the channel has no
\* sample or its last sample is not a price
CurrentNew3P ==
    IF IsNull(New3PHistory) \/ Len(Val(New3PHistory)) < 2 THEN None
    ELSE IF Val(New3PHistory)[Len(Val(New3PHistory))] > 0
         THEN Some(Val(New3PHistory)[Len(Val(New3PHistory))])
         ELSE None
\* the realistic price and the flag the claim gives an always-in-stock title
AlwaysInStock ==
    /\ Pres.stockoutPercent = Some(0)
    /\ Accumulated.bb = <<>>
    /\ Pres.amazonFlag = Some("red")
    /\ Pres.realisticPrice =
           IF IsNull(CurrentNew3P) THEN None ELSE Some(2 * Val(CurrentNew3P))

\* C13 as stated: if no Amazon 1P sample interval inside the trailing 90-day
\* window is out of stock (-1), stockoutPercent is 0, no buy-box stockout
\* sample is collected, and the realistic price is the current
\* third-party-new price with the flag red, or null if that price is
\* unavailable.
C13_Original ==
    (Analyzed /\ StockoutDuration = 0) => AlwaysInStock

\* C13, amended: the same, for a history that is observed inside the window
\* (totalDuration > 0); a history with no observed duration in the window,
\* the null channel included, yields a null percentage, a null realistic
\* price and a null flag, whatever the third-party-new price is.
C13_AlwaysInStock ==
    /\ (Analyzed /\ StockoutDuration = 0 /\ TotalDuration > 0) => AlwaysInStock
    /\ (Analyzed /\ TotalDuration = 0) =>
           /\ IsNull(Pres.stockoutPercent)
           /\ IsNull(Pres.realisticPrice)
           /\ IsNull(Pres.amazonFlag)

\* In stock at every sample of the window, a third-party-new offer at 18.00
\* and buy-box samples on record: the realistic price is 18.00, flagged red.
C13_Witness ==
    /\ Analyzed
    /\ NumSamples = MaxSamples
    /\ TotalDuration = 90 * 24 * 60 * 60 /\ StockoutDuration = 0
    /\ ~IsNull(BuyBoxHistory)
    /\ CurrentNew3P = Some(1800)
    /\ Pres.stockoutPercent = Some(0)
    /\ Pres.realisticPrice = Some(CentsToDollars(1800))
    /\ Pres.amazonFlag = Some("red")

\* the buy-box samples of the snapshot
NumBuyBox == IF IsNull(BuyBoxHistory) THEN 0 ELSE Len(Val(BuyBoxHistory)) \div 2
BuyBoxTime(j) == KEEPA_BASE_TIME + 60 * Val(BuyBoxHistory)[2 * j - 1]
BuyBoxPrice(j) == Val(BuyBoxHistory)[2 * j]

\* the stockout interval of sample k inside the window, borders included
StockoutFrom(k) == Max2(SampleTime(k), WindowStart)
StockoutTo(k) == IF k < NumSamples THEN Min2(SampleTime(k + 1), now) ELSE now
\* buy-box sample j carries a price and its timestamp lies inside a stockout
\* interval of the window
InsideStockout(j) ==
    /\ BuyBoxPrice(j) > 0
    /\ \E k \in 1..NumSamples :
           /\ SamplePrice(k) = -1
           /\ StockoutFrom(k) < StockoutTo(k)
           /\ StockoutFrom(k) <= BuyBoxTime(j) /\ BuyBoxTime(j) <= StockoutTo(k)

RECURSIVE InsidePrices(_)
\* the prices (cents) of the samples 1..j inside a stockout interval, each once
InsidePrices(j) ==
    IF j = 0 THEN <<>>
    ELSE InsidePrices(j - 1) \o (IF InsideStockout(j) THEN <<BuyBoxPrice(j)>> ELSE <<>>)

\* the median of a non-empty list of cents, in half-cents: the middle value,
\* or the mean of the two middle values
MedianOfCents(list) ==
    LET sorted == SortSeq(list, LAMBDA a, b : a < b)
        n      == Len(sorted)
    IN  IF n % 2 = 1 THEN 2 * sorted[(n + 1) \div 2]
        ELSE sorted[n \div 2] + sorted[n \div 2 + 1]

\* C14: when at least one buy-box sample has its timestamp inside an Amazon 1P
\* stockout interval of the window, the realistic price is the median of
\* exactly those samples, each counted once; a sample outside every stockout
\* interval never enters the median.
C14_MedianOfStockoutSamples ==
    Analyzed =>
        LET inside == InsidePrices(NumBuyBox)
        IN  /\ inside # <<>> => Pres.realisticPrice = Some(MedianOfCents(inside))
            /\ inside = <<>> => Accumulated.bb = <<>>

----------------------------------------------------------------------------
(* The sales-rank inputs: stats that are missing, or carry a 180-day and a  *)
(* 90-day average (each missing, -1, 0 or a rank) and a drop count (missing, *)
(* 0 or positive).                                                          *)

Avg180Ranks == {-1, 0, 400000, 3500000}
Avg90Ranks == {-1, 0, 600000}
DropCounts == {None, Some(0), Some(3), Some(7)}

MetricsStats ==
    {None} \cup
    {Some([avg |-> a, avg90 |-> b, salesRankDrops90 |-> d]) :
        a \in {None} \cup {Some([NoStatsAvg EXCEPT !.SALES_RANK = r]) : r \in Avg180Ranks},
        b \in {None} \cup {Some([NoStatsAvg EXCEPT !.SALES_RANK = r]) : r \in Avg90Ranks},
        d \in DropCounts}

InitMetrics ==
    /\ \E st \in MetricsStats : raw = [csv |-> None, stats |-> st]
    /\ now = Clock0
    /\ buyPrice = 0
    /\ result = None
    /\ presence = None
    /\ prev = None
    /\ book = None /\ fetched = None /\ stored = None /\ logged = None
    /\ sellPrice = None /\ isbn = None /\ ret = None
    /\ IoIdle
    /\ pc = "ready"

\* One call of getSalesRankMetrics on the snapshot at hand.
GetSalesRankMetrics ==
    /\ pc = "ready"
    /\ ret' = Some(getSalesRankMetrics(raw))
    /\ pc' = "returned"
    /\ UNCHANGED <<raw, buyPrice, now, result, presence, prev, batchVars, sellPrice, isbn, ioVars>>

NextMetrics == GetSalesRankMetrics

SpecMetrics == InitMetrics /\ [][NextMetrics]_vars

----------------------------------------------------------------------------
(* Claims about the sales-rank metrics *)

Returned == pc = "returned"
Ret == Val(ret)
\* the 180-day and the 90-day average rank of the snapshot, -1 when missing
Avg180Rank ==
    IF IsNull(raw.stats) \/ IsNull(Val(raw.stats).avg) THEN -1
    ELSE Val(Val(raw.stats).avg).SALES_RANK
Avg90Rank ==
    IF IsNull(raw.stats) \/ IsNull(Val(raw.stats).avg90) THEN -1
    ELSE Val(Val(raw.stats).avg90).SALES_RANK
\* the drop count of the snapshot, null when missing
Drops90 == IF IsNull(raw.stats) THEN None ELSE Val(raw.stats).salesRankDrops90

\* C15: getSalesRankMetrics returns the 180-day average rank when it is
\* positive, else the 90-day average rank when it is positive, else null; and
\* it returns the snapshot's drops90 count, or 0 when the count is missing.
C15_RankMetrics ==
    Returned =>
        /\ Avg180Rank > 0 => Ret.avgSalesRank = Some(Avg180Rank)
        /\ (Avg180Rank <= 0 /\ Avg90Rank > 0) => Ret.avgSalesRank = Some(Avg90Rank)
        /\ (Avg180Rank <= 0 /\ Avg90Rank <= 0) => IsNull(Ret.avgSalesRank)
        /\ Ret.salesRankDrops90 = IF IsNull(Drops90) THEN 0 ELSE Val(Drops90)

\* Both averages on record: the 180-day one is returned, and a missing drop
\* count is returned as 0.
C15_Witness ==
    /\ Returned
    /\ Avg180Rank = 400000 /\ Avg90Rank = 600000
    /\ IsNull(Drops90) /\ ~IsNull(raw.stats)
    /\ Ret = [avgSalesRank |-> Some(400000), salesRankDrops90 |-> 0]

----------------------------------------------------------------------------
(* The fee inputs: buy and sell prices in whole cents, cheap and dear, the   *)
(* sell price below, at and above the buy price.                             *)

\* cents
FeeBuyPrices == {0, 1, 400, 500, 999, 1999, 2000, 2005, 5000, 11543}
\* cents
FeeSellPrices == {1, 530, 624, 1500, 1999, 2000, 3000, 3533, 8000, 23086}

InitFees ==
    /\ raw = EmptySnapshot
    /\ now = Clock0
    /\ \E b \in FeeBuyPrices : buyPrice = CentsToDollars(b)
    /\ \E sp \in FeeSellPrices : sellPrice = Some(CentsToDollars(sp))
    /\ result = None
    /\ presence = None
    /\ prev = None
    /\ book = None /\ fetched = None /\ stored = None /\ logged = None
    /\ isbn = None /\ ret = None
    /\ IoIdle
    /\ pc = "ready"

\* One call of each profit calculator on the prices at hand.
CalculateProfits ==
    /\ pc = "ready"
    /\ ret' = Some([fbaProfit |-> calculateFBAProfit(buyPrice, Val(sellPrice)),
                    fbmProfit |-> calculateFBMProfit(buyPrice, Val(sellPrice))])
    /\ pc' = "returned"
    /\ UNCHANGED <<raw, buyPrice, now, result, presence, prev, batchVars, sellPrice, isbn, ioVars>>

NextFees == CalculateProfits

SpecFees == InitFees /\ [][NextFees]_vars

----------------------------------------------------------------------------
(* Claims about the profit calculators *)

\* the prices of the state in whole cents
SellCents == Val(sellPrice) \div 2
BuyCents == buyPrice \div 2

\* C16: in integer cents S (sell) and B (buy), calculateFBAProfit is
\* S - B - 0.15 * S - 180 - 350 cents and calculateFBMProfit is
\* S - B - 0.15 * S - 180 - 400 cents (both sides times 200 here, a profit
\* being counted in 1/200 cent), a negative result is returned as it is, and
\* the two differ by 50 cents.
C16_Profits ==
    Returned =>
        /\ Ret.fbaProfit = 200 * SellCents - 200 * BuyCents - 30 * SellCents
                              - 200 * 180 - 200 * 350
        /\ Ret.fbmProfit = 200 * SellCents - 200 * BuyCents - 30 * SellCents
                              - 200 * 180 - 200 * 400
        /\ Ret.fbaProfit - Ret.fbmProfit = 200 * 50

\* Bought at 20.00 and sold at 15.00: -12.55 fulfilled by Amazon and -13.05
\* merchant-fulfilled, both returned as losses.
C16_Witness ==
    /\ Returned
    /\ BuyCents = 2000 /\ SellCents = 1500
    /\ Ret.fbaProfit = 200 * (0 - 1255)
    /\ Ret.fbmProfit = 200 * (0 - 1305)

----------------------------------------------------------------------------
(* Two evaluations of one snapshot: a snapshot with an Amazon 1P history, a  *)
(* buy-box history, a third-party-new offer and a rank that passes, is       *)
(* handed to evaluateBook, and handed to it again some days later.           *)

\* cents, price + shipping
PurityBuyPrice == CentsToDollars(400)
PuritySnapshots ==
    {Snapshot(a, Some(<<DaysAgo(10), 1800>>), None, None, bb, RankStats(500000, 5)) :
        a \in Amazon1PHistories, bb \in PresenceBuyBoxes}
\* seconds between the two calls: a day, or 30 days
CallDelays == {24 * 60 * 60, 30 * 24 * 60 * 60}

InitPurity ==
    /\ raw \in PuritySnapshots
    /\ buyPrice = PurityBuyPrice
    /\ now = Clock0
    /\ result = None
    /\ presence = None
    /\ prev = None
    /\ book = None /\ fetched = None /\ stored = None /\ logged = None
    /\ sellPrice = None /\ isbn = None /\ ret = None
    /\ IoIdle
    /\ pc = "ready"

\* A second call of evaluateBook on the same snapshot and buy price, after the
\* clock has moved on. The result of the first call is kept in prev.
EvaluateLater ==
    /\ pc = "done"
    /\ \E d \in CallDelays : now' = now + d
    /\ prev' = result
    /\ result' = Some(evaluateBook(raw, buyPrice, now'))
    /\ pc' = "later"
    /\ UNCHANGED <<raw, buyPrice, presence, batchVars, helperVars, ioVars>>

NextPurity == EvaluateBook \/ EvaluateLater

SpecPurity == InitPurity /\ [][NextPurity]_vars

----------------------------------------------------------------------------
(* Claims about the purity of an evaluation *)

\* C17: two calls of evaluateBook with the same snapshot and the same buy
\* price return the same decision, sell price, flag and profits, at whatever
\* times the calls are made.
C17_SameResultAtAnyTime ==
    pc = "later" =>
        /\ Res.decision = Val(prev).decision
        /\ Res.amazonPrice = Val(prev).amazonPrice
        /\ Res.amazonFlag = Val(prev).amazonFlag
        /\ Res.fbaProfit = Val(prev).fbaProfit
        /\ Res.fbmProfit = Val(prev).fbmProfit

----------------------------------------------------------------------------
(* ISBN utilities. A string is a sequence of one-character strings.          *)

DigitChars == <<"0", "1", "2", "3", "4", "5", "6", "7", "8", "9">>
\* /\d/
IsDigit(c) == \E i \in 1..10 : DigitChars[i] = c
\* parseInt(c, 10) of a digit character
parseInt(c) == (CHOOSE i \in 1..10 : DigitChars[i] = c) - 1
\* n.toString() of 0 <= n < 100
toString(n) ==
    IF n < 10 THEN <<DigitChars[n + 1]>>
    ELSE <<DigitChars[(n \div 10) + 1], DigitChars[(n % 10) + 1]>>
\* what string concatenation makes of the number NaN
NaNString == <<"N", "a", "N">>
AllDigits(str) == \A i \in 1..Len(str) : IsDigit(str[i])
\* c.toUpperCase(), of the characters an identifier is made of
toUpperCase(c) == IF c = "x" THEN "X" ELSE c
\* str.replace(/[-\s]/g, '')
StripSeparators(str) == SelectSeq(str, LAMBDA c : c \notin {"-", " "})
\* str.startsWith(prefix)
startsWith(str, prefix) ==
    Len(str) >= Len(prefix) /\ SubSeq(str, 1, Len(prefix)) = prefix

\* the weight of index i (from 0) in the ISBN-13 checksum: (i % 2 === 0 ? 1 : 3)
MutEanWeightTwo(i) == IF i % 2 = 0 THEN 1 ELSE 2
EanWeight(i) == IF i % 2 = 0 THEN 1 ELSE 3

RECURSIVE EanSum(_, _)
\* sum of parseInt(str[i]) * weight over the indexes i < n (from 0)
EanSum(str, n) ==
    IF n = 0 THEN 0
    ELSE EanSum(str, n - 1) + parseInt(str[n]) * EanWeight(n - 1)

RECURSIVE Isbn10Sum(_, _)
\* sum of parseInt(str[i]) * (10 - i) over the indexes i < n (from 0)
Isbn10Sum(str, n) ==
    IF n = 0 THEN 0
    ELSE Isbn10Sum(str, n - 1) + parseInt(str[n]) * (10 - (n - 1))

\* (10 - (sum % 10)) % 10
EanCheckDigit(sum) == (10 - (sum % 10)) % 10

isbn10to13(isbn10) ==
    LET clean == StripSeparators(isbn10)
        base  == <<"9", "7", "8">> \o SubSeq(clean, 1, 9)
    IN  IF Len(clean) # 10 THEN None
        ELSE IF ~AllDigits(base) THEN Some(base \o NaNString)
        ELSE Some(base \o toString(EanCheckDigit(EanSum(base, 12))))

MutIsbn13to10NoX(isbn13) ==
    LET clean == StripSeparators(isbn13)
        base  == SubSeq(clean, 4, 12)
        remainder == Isbn10Sum(base, 9) % 11
    IN  IF Len(clean) # 13 \/ ~startsWith(clean, <<"9", "7", "8">>) THEN None
        ELSE IF ~AllDigits(base) THEN Some(base \o NaNString)
        ELSE Some(base \o (IF remainder = 0 THEN <<"0">> ELSE toString(11 - remainder)))
isbn13to10(isbn13) ==
    LET clean == StripSeparators(isbn13)
        base  == SubSeq(clean, 4, 12)
        remainder == Isbn10Sum(base, 9) % 11
    IN  IF Len(clean) # 13 \/ ~startsWith(clean, <<"9", "7", "8">>) THEN None
        ELSE IF ~AllDigits(base) THEN Some(base \o NaNString)
        ELSE Some(base \o (IF remainder = 0 THEN <<"0">>
                           ELSE IF remainder = 1 THEN <<"X">>
                           ELSE toString(11 - remainder)))

\* /^\d+X?$/i
DigitsThenX(clean) ==
    /\ Len(clean) >= 1
    /\ IsDigit(clean[1])
    /\ AllDigits(SubSeq(clean, 1, Len(clean) - 1))
    /\ IsDigit(clean[Len(clean)]) \/ toUpperCase(clean[Len(clean)]) = "X"

\* validateIsbn: [valid, error], error null when valid
validateIsbn(str) ==
    LET clean == StripSeparators(str)
        Invalid(error) == [valid |-> FALSE, error |-> Some(error)]
    IN  IF clean = <<>> THEN Invalid("ISBN is empty")
        ELSE IF ~DigitsThenX(clean)
        THEN Invalid("ISBN must contain only digits (and X for ISBN-10)")
        ELSE IF Len(clean) = 10
        THEN LET lastChar == toUpperCase(clean[10])
                 sum == Isbn10Sum(clean, 9)
                        + (IF lastChar = "X" THEN 10 ELSE parseInt(lastChar))
             IN  IF sum % 11 # 0 THEN Invalid("Invalid ISBN-10 checksum")
                 ELSE [valid |-> TRUE, error |-> None]
        ELSE IF Len(clean) = 13
        THEN \* parseInt of a final X is NaN, which no check digit equals
             IF ~IsDigit(clean[13])
                \/ EanCheckDigit(EanSum(clean, 12)) # parseInt(clean[13])
             THEN Invalid("Invalid ISBN-13 checksum")
             ELSE [valid |-> TRUE, error |-> None]
        ELSE \* the message also carries the length: "(got ${clean.length})"
             Invalid("ISBN must be 10 or 13 digits")

\* The validator of the listing scraper, on an identifier whose separators
\* the caller has stripped.
isValidIsbn10(str) ==
    IF Len(str) # 10 THEN FALSE
    ELSE IF ~AllDigits(SubSeq(str, 1, 9)) THEN FALSE
    ELSE LET last == toUpperCase(str[10])
         IN  IF last = "X" THEN (Isbn10Sum(str, 9) + 10) % 11 = 0
             ELSE IF ~IsDigit(last) THEN FALSE
             ELSE (Isbn10Sum(str, 9) + parseInt(last)) % 11 = 0

isValidIsbn13(str) ==
    IF Len(str) # 13 \/ ~AllDigits(str) THEN FALSE
    ELSE IF ~startsWith(str, <<"9", "7", "8">>) /\ ~startsWith(str, <<"9", "7", "9">>)
    THEN FALSE
    ELSE EanCheckDigit(EanSum(str, 12)) = parseInt(str[13])

isValidIsbn(str) == isValidIsbn10(str) \/ isValidIsbn13(str)

----------------------------------------------------------------------------
(* The identifier inputs: the first six digits of two published ISBN-10s     *)
(* (0-8044-2957-X, 0-306-40615-2) followed by three digits, closed by every   *)
(* check character, right or wrong; the same nine digits behind the prefix   *)
(* 978, 979 or 123 as 13-character identifiers; and strings of other         *)
(* lengths, with separators, or with a letter in them.                       *)

IsbnStems == {<<"0", "8", "0", "4", "4", "2">>, <<"0", "3", "0", "6", "4", "0">>}
IsbnTailDigits == {"0", "1", "5", "6", "7", "9"}
IsbnBodies ==
    {stem \o <<a, b, c>> : stem \in IsbnStems,
                           a \in IsbnTailDigits, b \in IsbnTailDigits, c \in IsbnTailDigits}
CheckChars == {DigitChars[i] : i \in 1..10} \cup {"X", "x"}
Isbn13Prefixes == {<<"9", "7", "8">>, <<"9", "7", "9">>, <<"1", "2", "3">>}

Isbn10Strings == {body \o <<c>> : body \in IsbnBodies, c \in CheckChars}
Isbn13Strings ==
    {prefix \o body \o <<c>> :
        prefix \in Isbn13Prefixes,
        body \in {b \in IsbnBodies : b[8] \in {"1", "5"}},
        c \in {DigitChars[i] : i \in 1..10} \cup {"X"}}
OddStrings ==
    {<<>>, <<"-">>, <<"X">>, <<"7">>,
     <<"0", "8", "0", "4", "4", "2", "9", "5", "7">>,
     <<"0", "8", "0", "4", "4", "2", "9", "5", "7", "X", "X">>,
     <<"0", "8", "0", "4", "4", "A", "9", "5", "7", "X">>,
     <<"0", "8", "0", "X", "4", "2", "9", "5", "7", "4">>,
     <<"0", "-", "8", "0", "4", "4", "-", "2", "9", "5", "7", "-", "X">>,
     <<"0", "-", "3", "0", "6", "-", "4", "0", "6", "1", "5", "-", "2">>,
     <<"9", "7", "8", "-", "0", "3", "0", "6", "4", "0", "6", "1", "5", "7">>,
     <<"9", "7", "8", "0", "3", "0", "6", "4", "0", "6", "1", "5">>,
     <<"9", "7", "8", "0", "3", "0", "6", "4", "0", "6", "1", "5", "7", "0">>,
     <<"9", "7", "8", "0", "3", "0", "6", "4", "0", "6", "1", "5", " ", "7">>}
IsbnInputs == Isbn10Strings \cup Isbn13Strings \cup OddStrings

InitIsbn ==
    /\ raw = EmptySnapshot
    /\ now = Clock0
    /\ buyPrice = 0
    /\ result = None
    /\ presence = None
    /\ prev = None
    /\ book = None /\ fetched = None /\ stored = None /\ logged = None
    /\ sellPrice = None /\ ret = None
    /\ IoIdle
    /\ \E str \in IsbnInputs : isbn = Some(str)
    /\ pc = "ready"

\* One call of validateIsbn, and of the scraper's isValidIsbn on the stripped
\* string, as extractISBN calls it.
ValidateIsbn ==
    /\ pc = "ready"
    /\ ret' = Some([validation |-> validateIsbn(Val(isbn)),
                    scraped    |-> isValidIsbn(StripSeparators(Val(isbn)))])
    /\ pc' = "validated"
    /\ UNCHANGED <<raw, buyPrice, now, result, presence, prev, batchVars, sellPrice, isbn, ioVars>>

\* isbn13to10(isbn10to13(x)); null when isbn10to13 returns null.
RoundTrip ==
    /\ pc = "ready"
    /\ ret' = Some(IF IsNull(isbn10to13(Val(isbn))) THEN None
                   ELSE isbn13to10(Val(isbn10to13(Val(isbn)))))
    /\ pc' = "converted"
    /\ UNCHANGED <<raw, buyPrice, now, result, presence, prev, batchVars, sellPrice, isbn, ioVars>>

NextIsbn == ValidateIsbn \/ RoundTrip

SpecIsbn == InitIsbn /\ [][NextIsbn]_vars

----------------------------------------------------------------------------
(* Claims about the identifiers *)

Validated == pc = "validated"
Converted == pc = "converted"
Id == Val(isbn)
\* the identifier with a final x written as X
Canonical == IF Len(Id) > 0 /\ Id[Len(Id)] = "x" THEN [Id EXCEPT ![Len(Id)] = "X"] ELSE Id

\* C18 as stated: for every valid 10-character ISBN x, those whose check
\* character is X included, isbn13to10(isbn10to13(x)) is x.
C18_Original ==
    (Converted /\ Len(Id) = 10 /\ validateIsbn(Id).valid) => Ret = Some(Id)

\* C18, amended: for every valid 10-character ISBN x,
\* isbn13to10(isbn10to13(x)) is x with its check character in upper case: x
\* itself when x ends in a digit or in X, and ...X when x ends in x.
C18_RoundTrip ==
    (Converted /\ Len(Id) = 10 /\ validateIsbn(Id).valid) => Ret = Some(Canonical)

\* 0-8044-2957-X comes back from 9780804429573 with its X.
C18_Witness ==
    /\ Converted
    /\ Id = <<"0", "8", "0", "4", "4", "2", "9", "5", "7", "X">>
    /\ validateIsbn(Id).valid
    /\ isbn10to13(Id) = Some(<<"9", "7", "8", "0", "8", "0", "4", "4", "2", "9", "5", "7", "3">>)
    /\ Ret = Some(Id)

\* the identifier with the character at position pos replaced by the digit d
Substituted(pos, d) == [Id EXCEPT ![pos] = d]

\* C19: for every valid 10- or 13-character identifier and every position,
\* replacing the character at that one position with a different digit makes
\* validateIsbn return valid = false.
C19_ChecksumSensitivity ==
    (Validated /\ Len(Id) \in {10, 13} /\ Ret.validation.valid) =>
        \A pos \in 1..Len(Id) :
            \A i \in 1..10 :
                (Id[pos] \notin {"-", " "} /\ DigitChars[i] # Id[pos]) =>
                    ~validateIsbn(Substituted(pos, DigitChars[i])).valid

\* 9780306406157 is valid, and 9780306406152, 9780806406157 and 1780306406157
\* are not.
C19_Witness ==
    /\ Validated
    /\ Id = <<"9", "7", "8", "0", "3", "0", "6", "4", "0", "6", "1", "5", "7">>
    /\ Ret.validation.valid
    /\ ~validateIsbn(Substituted(13, "2")).valid
    /\ ~validateIsbn(Substituted(5, "8")).valid
    /\ ~validateIsbn(Substituted(1, "1")).valid

\* the identifier without its separators, and its digit at position k
Clean == StripSeparators(Id)
DigitAt(k) == parseInt(Clean[k])
\* the 1,3-weighted sum of the first 12 digits of a 13-digit identifier
WeightedSum12 ==
    DigitAt(1) + 3 * DigitAt(2) + DigitAt(3) + 3 * DigitAt(4) + DigitAt(5)
    + 3 * DigitAt(6) + DigitAt(7) + 3 * DigitAt(8) + DigitAt(9) + 3 * DigitAt(10)
    + DigitAt(11) + 3 * DigitAt(12)

\* C20: validateIsbn accepts a 13-character identifier only if it is all
\* digits, starts with 978 or 979, and its 1,3-weighted checksum matches its
\* final digit modulo 10 (so a 13-digit string with a correct checksum and
\* another prefix is invalid); and an identifier of a length other than 10 or
\* 13 is invalid.
C20_Isbn13Accepted ==
    Validated =>
        /\ (Len(Clean) = 13 /\ Ret.validation.valid) =>
              /\ AllDigits(Clean)
              /\ SubSeq(Clean, 1, 3) \in {<<"9", "7", "8">>, <<"9", "7", "9">>}
              /\ (WeightedSum12 + DigitAt(13)) % 10 = 0
        /\ Len(Clean) \notin {10, 13} => ~Ret.validation.valid

----------------------------------------------------------------------------
(* Claims about what every BUY and every REVIEW has *)

\* C24: every result of evaluateBook whose decision is BUY or REVIEW has a
\* non-null average rank below 2,500,000, a non-null sell price, a multiplier
\* of at least 4, non-null FBA and FBM profits and drops90 of at least 2; so
\* a BUY meets every REVIEW threshold.
C24_BuyAndReviewFloor ==
    (Done /\ Res.decision \in {"BUY", "REVIEW"}) =>
        /\ ~IsNull(Res.salesRank) /\ Val(Res.salesRank) < 2500000
        /\ ~IsNull(Res.amazonPrice)
        /\ ~IsNull(Res.multiplier)
        /\ Val(Res.multiplier).num >= 4 * Val(Res.multiplier).den
        /\ Val(Res.multiplier) = [num |-> Val(Res.amazonPrice), den |-> buyPrice]
        /\ ~IsNull(Res.fbaProfit) /\ ~IsNull(Res.fbmProfit)
        /\ Res.salesRankDrops90 >= 2

\* A BUY by the high-profit exception, its multiplier between 4 and 6.
C24_Witness ==
    /\ Done
    /\ Res.decision = "BUY"
    /\ Res.reason.kind = "HighProfit"
    /\ Val(Res.multiplier).num >= 4 * Val(Res.multiplier).den
    /\ Val(Res.multiplier).num < 6 * Val(Res.multiplier).den
    /\ Val(Res.salesRank) < 2500000
    /\ Res.salesRankDrops90 >= 2

----------------------------------------------------------------------------
(* evaluatePendingBooks: the loop over the pending books of the store *)

KEEPA_DELAY_MS == 1200
PENDING_LIMIT == 500

\* The ISBNs of the books table: two valid ISBN-10 and one with a wrong check
\* digit, for which getProductByIsbn returns null without a request.
BatchIsbns ==
    {<<"0", "3", "0", "6", "4", "0", "6", "1", "5", "2">>,
     <<"0", "8", "0", "4", "4", "2", "9", "5", "7", "X">>,
     <<"0", "3", "0", "6", "4", "0", "6", "1", "5", "3">>}

\* The scrape times of the rows, all different, in two orders.
ScrapeOrders ==
    {f \in [BatchIsbns -> 1..3] :
        /\ \A a, b \in BatchIsbns : a # b => f[a] # f[b]
        /\ f[<<"0", "3", "0", "6", "4", "0", "6", "1", "5", "3">>] \in {2, 3}
        /\ f[<<"0", "3", "0", "6", "4", "0", "6", "1", "5", "2">>] # 2}

\* The tables the run starts from: every row costs $4.00 with free shipping
\* and is pending or was rejected by an earlier run.
BatchTables ==
    {[i \in BatchIsbns |->
        [price |-> 400, shipping |-> 0, scraped_at |-> f[i], decision |-> d[i]]] :
        f \in ScrapeOrders, d \in [BatchIsbns -> {None, Some("REJECT")}]}

\* What Keepa returns for an ISBN: a product that evaluates to BUY, to REVIEW
\* or to REJECT for a $4.00 book.
BatchSnapshots ==
    {Snapshot(None, Some(<<DaysAgo(10), p>>), None, None, None, RankStats(500000, 5)) :
        p \in {4000, 2000, 900}}

\* The answers to a Keepa request: a product, no product, HTTP 429, or a
\* failure of the request itself.
KeepaAnswers ==
    {[kind |-> "product", product |-> Some(sn)] : sn \in BatchSnapshots} \cup
    {[kind |-> k, product |-> None] : k \in {"noProduct", "status429", "networkError"}}

\* What getProductByIsbn makes of the answer a: the product, or null when the
\* response is not ok, holds no product, or the request threw.
ProductOf(a) == IF a.kind = "product" THEN a.product ELSE None

\* The rows with a null decision, oldest scrape first, at most PENDING_LIMIT.
MutGetPendingBooksNewestFirst(table) ==
    LET S == {i \in DOMAIN table : IsNull(table[i].decision)}
        sorted == CHOOSE q \in [1..Cardinality(S) -> S] :
                      /\ \A j, k \in 1..Cardinality(S) : j # k => q[j] # q[k]
                      /\ \A j, k \in 1..Cardinality(S) :
                            j < k => table[q[j]].scraped_at >= table[q[k]].scraped_at
    IN  [k \in 1..Cardinality(S) |->
            [isbn |-> sorted[k], price |-> table[sorted[k]].price,
             shipping |-> table[sorted[k]].shipping]]

getPendingBooks(table) ==
    LET S == {i \in DOMAIN table : IsNull(table[i].decision)}
        sorted == CHOOSE q \in [1..Cardinality(S) -> S] :
                      /\ \A j, k \in 1..Cardinality(S) : j # k => q[j] # q[k]
                      /\ \A j, k \in 1..Cardinality(S) :
                            j < k => table[q[j]].scraped_at <= table[q[k]].scraped_at
        n == IF Cardinality(S) < PENDING_LIMIT THEN Cardinality(S) ELSE PENDING_LIMIT
    IN  [k \in 1..n |->
            [isbn |-> sorted[k], price |-> table[sorted[k]].price,
             shipping |-> table[sorted[k]].shipping]]

\* updateBookEvaluation: the row of the ISBN gets the decision when the store
\* accepts the update; when the store reports an error the row is left as it
\* was and false is returned.
updateBookEvaluation(table, i, decision, ok) ==
    IF ok THEN [table EXCEPT ![i].decision = Some(decision)] ELSE table

\* The counters after a book without Keepa data.
MutCountNoDataOnly(c) == [c EXCEPT !.noData = @ + 1]

CountNoData(c) == [c EXCEPT !.noData = @ + 1, !.evaluated = @ + 1]

\* The counters after a book evaluateBook decided.
CountDecision(c, decision) ==
    LET d == CASE decision = "BUY" -> [c EXCEPT !.buy = @ + 1]
               [] decision = "REVIEW" -> [c EXCEPT !.review = @ + 1]
               [] OTHER -> [c EXCEPT !.reject = @ + 1]
    IN  [d EXCEPT !.evaluated = @ + 1]

\* sleep(ms): the time slept so far, ms later.
MutSleepReturnsAtOnce(slept, ms) == slept

sleep(slept, ms) == slept + ms

InitBatch ==
    /\ raw = EmptySnapshot
    /\ buyPrice = 0
    /\ now = Clock0
    /\ result = None
    /\ presence = None
    /\ prev = None
    /\ book = None /\ fetched = None /\ stored = None /\ logged = None
    /\ sellPrice = None /\ isbn = None /\ ret = None
    /\ db \in BatchTables
    /\ pending = <<>>
    /\ idx = 0
    /\ counts = [evaluated |-> 0, buy |-> 0, review |-> 0, reject |-> 0, noData |-> 0]
    /\ inFlight = {}
    /\ sinceLookup = 0
    /\ lookups = <<>>
    /\ updates = <<>>
    /\ NetIdle
    /\ pc = "start"

\* const pending = await getPendingBooks(): the store answers, or reports an
\* error and getPendingBooks returns [].
LoadPending ==
    /\ pc = "start"
    /\ \E ok \in BOOLEAN : pending' = IF ok THEN getPendingBooks(db) ELSE <<>>
    /\ pc' = "loop"
    /\ UNCHANGED <<raw, buyPrice, now, result, presence, prev, batchVars, helperVars,
                   db, idx, counts, inFlight, sinceLookup, lookups, updates, netVars>>

\* The loop takes the next book, and getProductByIsbn sends its request.
IssueLookup ==
    /\ pc = "loop"
    /\ idx < Len(pending)
    /\ validateIsbn(pending[idx + 1].isbn).valid
    /\ book' = Some([price |-> pending[idx + 1].price,
                     shipping |-> pending[idx + 1].shipping])
    /\ isbn' = Some(pending[idx + 1].isbn)
    /\ inFlight' = inFlight \cup {pending[idx + 1].isbn}
    /\ pc' = "lookup"
    /\ UNCHANGED <<raw, buyPrice, now, result, presence, prev, fetched, stored, logged,
                   sellPrice, ret, db, pending, idx, counts, sinceLookup, lookups,
                   updates, netVars>>

\* The loop takes the next book, and getProductByIsbn returns null without a
\* request because the ISBN is invalid.
RefuseLookup ==
    /\ pc = "loop"
    /\ idx < Len(pending)
    /\ ~validateIsbn(pending[idx + 1].isbn).valid
    /\ book' = Some([price |-> pending[idx + 1].price,
                     shipping |-> pending[idx + 1].shipping])
    /\ isbn' = Some(pending[idx + 1].isbn)
    /\ fetched' = None
    /\ pc' = "got"
    /\ UNCHANGED <<raw, buyPrice, now, result, presence, prev, stored, logged,
                   sellPrice, ret, db, pending, idx, counts, inFlight, sinceLookup,
                   lookups, updates, netVars>>

\* Keepa answers the request, and getProductByIsbn returns.
KeepaAnswer ==
    /\ pc = "lookup"
    /\ \E a \in KeepaAnswers :
          /\ fetched' = ProductOf(a)
          /\ lookups' = Append(lookups, [isbn |-> Val(isbn), outcome |-> a.kind])
    /\ inFlight' = inFlight \ {Val(isbn)}
    /\ sinceLookup' = 0
    /\ pc' = "got"
    /\ UNCHANGED <<raw, buyPrice, now, result, presence, prev, book, stored, logged,
                   helperVars, db, pending, idx, counts, updates, netVars>>

\* if (!raw): REJECT is written, noData and evaluated are counted.
StoreNoData ==
    /\ pc = "got"
    /\ IsNull(fetched)
    /\ \E ok \in BOOLEAN :
          /\ db' = updateBookEvaluation(db, Val(isbn), "REJECT", ok)
          /\ updates' = Append(updates, [isbn |-> Val(isbn), decision |-> "REJECT",
                                         ok |-> ok, answered |-> Len(lookups)])
    /\ stored' = Some(NoDataEvaluation)
    /\ logged' = Some(Reason("NoKeepaData", {"snapshot"}))
    /\ counts' = CountNoData(counts)
    /\ pc' = "sleep"
    /\ UNCHANGED <<raw, buyPrice, now, result, presence, prev, book, fetched,
                   helperVars, pending, idx, inFlight, sinceLookup, lookups, netVars>>

\* The book is evaluated, the evaluation is written, and its decision and
\* evaluated are counted.
StoreEvaluation ==
    /\ pc = "got"
    /\ ~IsNull(fetched)
    /\ raw' = Val(fetched)
    /\ buyPrice' = BuyPriceDollars(Val(book))
    /\ result' = Some(evaluateBook(raw', buyPrice', now))
    /\ stored' = Some(StoredEvaluation(Val(result')))
    /\ logged' = Some(Val(result').reason)
    /\ \E ok \in BOOLEAN :
          /\ db' = updateBookEvaluation(db, Val(isbn), Val(result').decision, ok)
          /\ updates' = Append(updates, [isbn |-> Val(isbn),
                                         decision |-> Val(result').decision,
                                         ok |-> ok, answered |-> Len(lookups)])
    /\ counts' = CountDecision(counts, Val(result').decision)
    /\ pc' = "sleep"
    /\ UNCHANGED <<now, presence, prev, book, fetched, helperVars, pending, idx,
                   inFlight, sinceLookup, lookups, netVars>>

\* await sleep(KEEPA_DELAY_MS), the last statement of both branches of the
\* loop body.
SleepBetweenLookups ==
    /\ pc = "sleep"
    /\ sinceLookup' = sleep(sinceLookup, KEEPA_DELAY_MS)
    /\ idx' = idx + 1
    /\ pc' = "loop"
    /\ UNCHANGED <<raw, buyPrice, now, result, presence, prev, batchVars, helperVars,
                   db, pending, counts, inFlight, lookups, updates, netVars>>

\* The loop has gone through pending, and the counters are returned.
ReturnCounts ==
    /\ pc = "loop"
    /\ idx = Len(pending)
    /\ pc' = "finished"
    /\ UNCHANGED <<raw, buyPrice, now, result, presence, prev, batchVars, helperVars,
                   loopVars, netVars>>

NextBatch ==
    \/ LoadPending
    \/ IssueLookup
    \/ RefuseLookup
    \/ KeepaAnswer
    \/ StoreNoData
    \/ StoreEvaluation
    \/ SleepBetweenLookups
    \/ ReturnCounts

SpecBatch == InitBatch /\ [][NextBatch]_vars

----------------------------------------------------------------------------
(* Claims about the batch *)

Finished == pc = "finished"
AtLoopBoundary == pc \in {"loop", "finished"}

\* C21: the batch is strictly sequential: at most one Keepa lookup is in
\* flight, none while the loop is anywhere but waiting for it, and when a
\* lookup is sent after an earlier one was answered, at least KEEPA_DELAY_MS
\* have been slept since that answer, whether the earlier book had data, had
\* none, or its request failed.
C21_SequentialWithDelay ==
    /\ Cardinality(inFlight) <= 1
    /\ inFlight # {} => pc = "lookup"
    /\ (pc = "lookup" /\ Len(lookups) > 0) => sinceLookup >= KEEPA_DELAY_MS

\* The lookup of a later book is in flight after a lookup whose request
\* failed.
C21_Witness ==
    /\ pc = "lookup"
    /\ inFlight # {}
    /\ idx > 0
    /\ Len(lookups) = 1
    /\ lookups[1].outcome = "networkError"

\* C22: once Keepa has answered a lookup with HTTP 429, no further lookup is
\* sent and no other book of the batch gets a decision.
C22_RateLimitAborts ==
    \A k \in 1..Len(lookups) :
        lookups[k].outcome = "status429" =>
            /\ k = Len(lookups)
            /\ inFlight = {}
            /\ \A u \in 1..Len(updates) :
                  updates[u].isbn # lookups[k].isbn => updates[u].answered < k

\* C25: at every loop boundary and at the return, evaluated is the sum of
\* buy, review, reject and noData and the number of books processed; the
\* books are processed in the order getPendingBooks returned them, oldest
\* scrape first, with exactly one updateBookEvaluation call for each.
C25_CountersAndOrder ==
    /\ AtLoopBoundary =>
          /\ counts.evaluated = counts.buy + counts.review + counts.reject + counts.noData
          /\ counts.evaluated = idx
          /\ Len(updates) = idx
    /\ Len(updates) \in {idx, idx + 1}
    /\ \A k \in 1..Len(updates) : updates[k].isbn = pending[k].isbn
    /\ \A j, k \in 1..Len(pending) :
          j < k => db[pending[j].isbn].scraped_at < db[pending[k].isbn].scraped_at

\* A run over three pending books has returned: one BUY, one REVIEW and one
\* book without data.
C25_Witness ==
    /\ Finished
    /\ idx = 3
    /\ counts.buy = 1 /\ counts.review = 1 /\ counts.noData = 1

\* C26: when the run returns, every book it counted as evaluated has a
\* non-null decision in the store, and getPendingBooks does not return it
\* again.
C26_CountedBooksAreDecided ==
    Finished =>
        \A k \in 1..counts.evaluated :
            /\ ~IsNull(db[pending[k].isbn].decision)
            /\ \A j \in 1..Len(getPendingBooks(db)) :
                  getPendingBooks(db)[j].isbn # pending[k].isbn

----------------------------------------------------------------------------
(* fetchWithRetry and getOAuthToken: the retry loop and the token cache *)

maxRetries == 4
INITIAL_DELAY == 2000
\* The 300_000 ms of getOAuthToken, in seconds.
TOKEN_MARGIN == 300

\* The deepest nesting of fetchWithRetry calls that is followed, the number of
\* calls made from outside, and the time that passes in all.
MaxDepth == 2
MaxCalls == 2
MaxElapsed == 7200

\* The steps of the clock, in seconds, and the lifetimes the OAuth endpoint
\* gives its tokens.
TimeSteps == {3450}
ExpiresIn == {7200}

\* The Authorization header: Basic credentials, or Bearer with token t >= 1.
Basic == 0
Bearer(t) == t

\* A call of fetchWithRetry at its first attempt.
NewCall(url, auth) ==
    [url |-> url, attempt |-> 0, delay |-> INITIAL_DELAY, auth |-> auth,
     requests |-> 0, rejected |-> None, refreshed |-> FALSE,
     clientError |-> FALSE]

Top == stack[Len(stack)]
Pop(stk) == SubSeq(stk, 1, Len(stk) - 1)

\* await sleep(delay); delay *= 2; continue.
Backoff(f) == [f EXCEPT !.attempt = @ + 1, !.delay = @ * 2]

\* The stack after the innermost call has sent a request with its header.
Sent(stk) ==
    [stk EXCEPT ![Len(stk)].requests = @ + 1,
                ![Len(stk)].refreshed = FALSE,
                ![Len(stk)].rejected = None]

\* The tokens the program still holds, and a token the OAuth endpoint has
\* not issued among them: the new token differs from every one of them.
TokensHeld ==
    (IF IsNull(cachedToken) THEN {} ELSE {Val(cachedToken)}) \cup
    (IF IsNull(lastIssue) THEN {} ELSE {Val(lastIssue).token}) \cup
    {stack[k].auth : k \in 1..Len(stack)} \cup
    {Val(stack[k].rejected) : k \in {j \in 1..Len(stack) : ~IsNull(stack[j].rejected)}}

NewToken ==
    CHOOSE t \in 1..(Cardinality(TokensHeld) + 1) :
        /\ t \notin TokensHeld
        /\ \A u \in 1..(t - 1) : u \in TokensHeld

\* The errors: a TypeError of fetch, a RateLimitError, or an Error; what
\* matters of the message is whether it includes 'fetch'.
TypeError(mentionsFetch) ==
    [typeError |-> TRUE, rateLimit |-> FALSE, mentionsFetch |-> mentionsFetch]
RateLimitError == [typeError |-> FALSE, rateLimit |-> TRUE, mentionsFetch |-> FALSE]
Error(mentionsFetch) ==
    [typeError |-> FALSE, rateLimit |-> FALSE, mentionsFetch |-> mentionsFetch]

\* if (error instanceof TypeError || error.message.includes('fetch'))
IsNetworkError(err) == err.typeError \/ err.mentionsFetch

\* The try block of the innermost call of stk has thrown err: its catch
\* retries after a network error, throws "Network error after" at the last
\* attempt, and rethrows everything else. What leaves a call arrives in the
\* try block of the call that awaits getOAuthToken, or at the outside caller.
RECURSIVE Throw(_, _)
Throw(stk, err) ==
    IF stk = <<>> THEN [stack |-> <<>>, thrown |-> Some(err)]
    ELSE LET f == stk[Len(stk)]
         IN  IF IsNetworkError(err)
             THEN IF f.attempt = maxRetries
                  THEN Throw(Pop(stk), Error(err.mentionsFetch))
                  ELSE [stack |-> [stk EXCEPT ![Len(stk)] = Backoff(f)],
                        thrown |-> None]
             ELSE Throw(Pop(stk), err)

\* if (cachedToken && Date.now() < tokenExpiresAt - 300_000)
MutCacheValidUntilExpiry == ~IsNull(cachedToken) /\ now < tokenExpiresAt

CacheValid == ~IsNull(cachedToken) /\ now < tokenExpiresAt - TOKEN_MARGIN

\* tokenExpiresAt = Date.now() + data.expires_in * 1000
MutExpiryWithoutFetchTime(at, expiresIn) == expiresIn

ExpiryOf(at, expiresIn) == at + expiresIn

InitFetch ==
    /\ raw = EmptySnapshot
    /\ buyPrice = 0
    /\ now = Clock0
    /\ result = None
    /\ presence = None
    /\ prev = None
    /\ book = None /\ fetched = None /\ stored = None /\ logged = None
    /\ sellPrice = None /\ isbn = None /\ ret = None
    /\ LoopIdle
    /\ cachedToken = None
    /\ tokenExpiresAt = 0
    /\ stack = <<>>
    /\ caller = "none"
    /\ calls = 0
    /\ lastIssue = None
    /\ ScrapeIdle
    /\ pc = "ready"

fetchFrame == <<raw, buyPrice, result, presence, prev, batchVars, sellPrice, isbn,
                loopVars, scrapeVars, pc>>

\* The clock moves on, between the calls from outside and while the first
\* request of such a call is outstanding.
TimePasses ==
    /\ stack = <<>> \/ (Len(stack) = 1 /\ Top.attempt = 0)
    /\ \E d \in TimeSteps :
          /\ now + d <= Clock0 + MaxElapsed
          /\ now' = now + d
    /\ UNCHANGED <<fetchFrame, ret, fetchVars>>

\* getOAuthToken is called from outside: the cached token is returned, or the
\* OAuth request is handed to fetchWithRetry.
GetOAuthToken ==
    /\ stack = <<>>
    /\ calls < MaxCalls
    /\ calls' = calls + 1
    /\ IF CacheValid
       THEN /\ ret' = Some([kind |-> "token", token |-> Val(cachedToken),
                            network |-> FALSE, at |-> now, expiry |-> tokenExpiresAt])
            /\ UNCHANGED <<stack, caller>>
       ELSE /\ ret' = None
            /\ stack' = <<NewCall("oauth", Basic)>>
            /\ caller' = "token"
    /\ UNCHANGED <<fetchFrame, now, cachedToken, tokenExpiresAt, lastIssue>>

\* fetchItemDetail is called: it takes the token from getOAuthToken and hands
\* the item request to fetchWithRetry.
FetchItemDetail ==
    /\ stack = <<>>
    /\ calls < MaxCalls
    /\ calls' = calls + 1
    /\ ret' = None
    /\ caller' = "detail"
    /\ stack' = IF CacheValid
                THEN <<NewCall("item", Bearer(Val(cachedToken)))>>
                ELSE <<NewCall("oauth", Basic)>>
    /\ UNCHANGED <<fetchFrame, now, cachedToken, tokenExpiresAt, lastIssue>>

\* The try block of the innermost call throws err.
Raise(stk, err) ==
    LET r == Throw(stk, err)
    IN  /\ stack' = r.stack
        /\ IF IsNull(r.thrown)
           THEN UNCHANGED <<ret, caller>>
           ELSE /\ ret' = Some([kind |-> "threw", error |-> Val(r.thrown)])
                /\ caller' = "none"

\* The response is 401. Before the last attempt the cache is cleared and
\* getOAuthToken is awaited, which hands a new OAuth request to
\* fetchWithRetry; at the last attempt the 401 is thrown as an HTTP error.
Unauthorized ==
    /\ stack # <<>>
    /\ IF Top.attempt < maxRetries
       THEN /\ Len(stack) < MaxDepth
            /\ cachedToken' = None
            /\ tokenExpiresAt' = 0
            /\ stack' = Append([Sent(stack) EXCEPT ![Len(stack)].rejected = Some(Top.auth)],
                               NewCall("oauth", Basic))
            /\ UNCHANGED <<ret, caller>>
       ELSE /\ \E mentionsFetch \in BOOLEAN : Raise(Sent(stack), Error(mentionsFetch))
            /\ UNCHANGED <<cachedToken, tokenExpiresAt>>
    /\ UNCHANGED <<fetchFrame, now, calls, lastIssue>>

\* The response is 429: RateLimitError at the last attempt, else a wait and
\* the next attempt.
RateLimited ==
    /\ stack # <<>>
    /\ IF Top.attempt = maxRetries
       THEN Raise(Sent(stack), RateLimitError)
       ELSE /\ stack' = [Sent(stack) EXCEPT ![Len(stack)] = Backoff(@)]
            /\ UNCHANGED <<ret, caller>>
    /\ UNCHANGED <<fetchFrame, now, cachedToken, tokenExpiresAt, calls, lastIssue>>

\* The response is 5xx: an Error at the last attempt, else a wait and the
\* next attempt.
ServerError ==
    /\ stack # <<>>
    /\ IF Top.attempt = maxRetries
       THEN Raise(Sent(stack), Error(FALSE))
       ELSE /\ stack' = [Sent(stack) EXCEPT ![Len(stack)] = Backoff(@)]
            /\ UNCHANGED <<ret, caller>>
    /\ UNCHANGED <<fetchFrame, now, cachedToken, tokenExpiresAt, calls, lastIssue>>

\* The response is a 4xx other than 401 and 429: an Error with the first 200
\* characters of the body in its message is thrown inside the try block.
ClientError ==
    /\ stack # <<>>
    /\ \E mentionsFetch \in BOOLEAN :
          Raise([Sent(stack) EXCEPT ![Len(stack)].clientError = TRUE],
                Error(mentionsFetch))
    /\ UNCHANGED <<fetchFrame, now, cachedToken, tokenExpiresAt, calls, lastIssue>>

\* fetch itself throws a TypeError.
NetworkError ==
    /\ stack # <<>>
    /\ \E mentionsFetch \in BOOLEAN : Raise(Sent(stack), TypeError(mentionsFetch))
    /\ UNCHANGED <<fetchFrame, now, cachedToken, tokenExpiresAt, calls, lastIssue>>

\* The item request succeeds: fetchWithRetry returns the response.
ItemOk ==
    /\ stack # <<>>
    /\ Top.url = "item"
    /\ stack' = Pop(stack)
    /\ ret' = Some([kind |-> "response", auth |-> Top.auth])
    /\ caller' = "none"
    /\ UNCHANGED <<fetchFrame, now, cachedToken, tokenExpiresAt, calls, lastIssue>>

\* The OAuth request succeeds: getOAuthToken stores the token and its expiry
\* and returns the token to the call that awaited it, which sets the header
\* and goes to its next attempt, or to the outside caller.
TokenOk ==
    /\ stack # <<>>
    /\ Top.url = "oauth"
    /\ \E e \in ExpiresIn :
          /\ tokenExpiresAt' = ExpiryOf(now, e)
          /\ lastIssue' = Some([token |-> NewToken, at |-> now, expires_in |-> e])
    /\ cachedToken' = Some(NewToken)
    /\ IF Len(stack) > 1
       THEN /\ stack' = [Pop(Sent(stack)) EXCEPT
                            ![Len(stack) - 1].auth = Bearer(NewToken),
                            ![Len(stack) - 1].attempt = @ + 1,
                            ![Len(stack) - 1].refreshed = TRUE]
            /\ UNCHANGED <<ret, caller>>
       ELSE IF caller = "token"
            THEN /\ stack' = <<>>
                 /\ ret' = Some([kind |-> "token", token |-> NewToken,
                                 network |-> TRUE, at |-> now,
                                 expiry |-> tokenExpiresAt'])
                 /\ caller' = "none"
            ELSE /\ stack' = <<NewCall("item", Bearer(NewToken))>>
                 /\ UNCHANGED <<ret, caller>>
    /\ UNCHANGED <<fetchFrame, now, calls>>

NextFetch ==
    \/ TimePasses
    \/ GetOAuthToken
    \/ FetchItemDetail
    \/ Unauthorized
    \/ RateLimited
    \/ ServerError
    \/ ClientError
    \/ NetworkError
    \/ ItemOk
    \/ TokenOk

SpecFetch == InitFetch /\ [][NextFetch]_vars

----------------------------------------------------------------------------
(* Claims about fetchWithRetry and the token cache *)

\* C27: a call of fetchWithRetry sends at most maxRetries + 1 = 5 requests,
\* and after a 4xx response other than 401 and 429 it sends none: the call
\* that got such a response is no longer in progress.
C27_BoundedRetries ==
    \A k \in 1..Len(stack) :
        /\ stack[k].requests <= maxRetries + 1
        /\ stack[k].attempt <= maxRetries
        /\ ~stack[k].clientError

----------------------------------------------------------------------------
(* scrapeAllListings: the paged search, the item loop and onPageDone *)

PAGE_SIZE == 200
MAX_CONSECUTIVE_ERRORS == 3

\* The longest result set, in pages.
MaxPages == 2

\* The ISBNs extractISBN finds in the listings.
ListedIsbns == {"0306406152", "080442957X"}

\* A listing: the valid ISBN of its summary if it has one, whether the
\* summary has an isbn or gtin field at all, and the valid ISBN of its item
\* detail if it has one.
Listing(summary, hadData, detail) ==
    [summary |-> summary, summaryHadData |-> hadData, detail |-> detail]

\* The listings a page is made of, in the order of the page: the other
\* listings of the page have a gtin that is no valid ISBN, and are skipped
\* without a request.
PageListings ==
    {<<>>,
     <<Listing(Some("0306406152"), TRUE, None), Listing(Some("080442957X"), TRUE, None)>>,
     <<Listing(Some("0306406152"), TRUE, None), Listing(Some("0306406152"), TRUE, None)>>,
     <<Listing(Some("080442957X"), TRUE, None), Listing(None, FALSE, Some("0306406152"))>>,
     <<Listing(None, FALSE, Some("080442957X")), Listing(None, TRUE, None)>>,
     <<Listing(None, FALSE, None), Listing(None, FALSE, Some("080442957X"))>>}

\* The pages: full ones, and ones of 3 listings.
FullPages == {[length |-> PAGE_SIZE, listings |-> l] : l \in PageListings}
ShortPages == {[length |-> 3, listings |-> l] : l \in PageListings}
EmptyPage == [length |-> 0, listings |-> <<>>]

\* The result sets: up to MaxPages pages, every page but the last one full.
Sites ==
    UNION {{q \in [1..n -> FullPages \cup ShortPages] :
               \A k \in 1..(n - 1) : q[k] \in FullPages} : n \in 1..MaxPages}

\* searchData.itemSummaries || [] for the search at offset o.
PageAt(pages, o) ==
    IF o \div PAGE_SIZE + 1 <= Len(pages) THEN pages[o \div PAGE_SIZE + 1] ELSE EmptyPage

\* offset += PAGE_SIZE
MutAdvanceNothing(o) == o

AdvanceOffset(o) == o + PAGE_SIZE

\* if (!isbn) continue; if (existingISBNs.has(isbn)) continue; push.
PushIfNew(books, existing, found) ==
    IF IsNull(found) THEN books
    ELSE IF Val(found) \in existing THEN books
    ELSE Append(books, Val(found))

\* if (rateLimited) break; if (items.length < PAGE_SIZE) break;
MutStopsAfterShortPageOnly(limited, length) == length < PAGE_SIZE

StopsAfterPage(limited, length) == limited \/ length < PAGE_SIZE

\* The ISBNs of an array of books.
IsbnsOf(books) == {books[k] : k \in 1..Len(books)}

InitScrape ==
    /\ raw = EmptySnapshot
    /\ buyPrice = 0
    /\ now = Clock0
    /\ result = None
    /\ presence = None
    /\ prev = None
    /\ book = None /\ fetched = None /\ stored = None /\ logged = None
    /\ sellPrice = None /\ isbn = None /\ ret = None
    /\ LoopIdle
    /\ FetchIdle
    /\ site \in Sites
    /\ searchOffset = 0
    /\ pageNum = 0
    /\ consecutiveErrors = 0
    /\ given \in {{}, {"0306406152"}}
    /\ existingISBNs = given
    /\ items = EmptyPage
    /\ itemIndex = 0
    /\ booksFromPage = <<>>
    /\ rateLimited = FALSE
    /\ detailFetches = 0
    /\ passed = <<>>
    /\ searches = <<>>
    /\ limit = None
    /\ pc = "token"

scrapeFrame == <<raw, buyPrice, now, result, presence, prev, batchVars, helperVars,
                 loopVars, fetchVars, site, given>>

\* const token = await getOAuthToken(): the token, or the error it throws.
ObtainToken ==
    /\ pc = "token"
    /\ pc' \in {"search", "threw"}
    /\ UNCHANGED <<scrapeFrame, searchOffset, pageNum, consecutiveErrors, existingISBNs,
                   items, itemIndex, booksFromPage, rateLimited, detailFetches,
                   passed, searches, limit>>

\* The search of the page succeeds: the error count is reset, an empty page
\* ends the loop, any other page is gone through.
SearchPage ==
    /\ pc = "search"
    /\ pageNum' = pageNum + 1
    /\ searches' = Append(searches, [offset |-> searchOffset, outcome |-> "ok",
                                     length |-> PageAt(site, searchOffset).length])
    /\ consecutiveErrors' = 0
    /\ IF PageAt(site, searchOffset).length = 0
       THEN /\ pc' = "stopped"
            /\ UNCHANGED <<items, itemIndex, booksFromPage, rateLimited>>
       ELSE /\ items' = PageAt(site, searchOffset)
            /\ itemIndex' = 0
            /\ booksFromPage' = <<>>
            /\ rateLimited' = FALSE
            /\ pc' = "items"
    /\ UNCHANGED <<scrapeFrame, searchOffset, existingISBNs, detailFetches, passed, limit>>

\* The search throws RateLimitError: the scrape stops.
SearchRateLimited ==
    /\ pc = "search"
    /\ pageNum' = pageNum + 1
    /\ searches' = Append(searches, [offset |-> searchOffset, outcome |-> "rateLimit",
                                     length |-> 0])
    /\ pc' = "stopped"
    /\ UNCHANGED <<scrapeFrame, searchOffset, consecutiveErrors, existingISBNs, items,
                   itemIndex, booksFromPage, rateLimited, detailFetches, passed, limit>>

\* The search throws another error: the third in a row stops the scrape,
\* an earlier one skips the page.
SearchFails ==
    /\ pc = "search"
    /\ pageNum' = pageNum + 1
    /\ searches' = Append(searches, [offset |-> searchOffset, outcome |-> "failed",
                                     length |-> 0])
    /\ consecutiveErrors' = consecutiveErrors + 1
    /\ IF consecutiveErrors' >= MAX_CONSECUTIVE_ERRORS
       THEN pc' = "stopped" /\ UNCHANGED searchOffset
       ELSE pc' = "search" /\ searchOffset' = AdvanceOffset(searchOffset)
    /\ UNCHANGED <<scrapeFrame, existingISBNs, items, itemIndex, booksFromPage,
                   rateLimited, detailFetches, passed, limit>>

Item == items.listings[itemIndex + 1]
MoreItems == pc = "items" /\ itemIndex < Len(items.listings)
NeedsDetail == IsNull(Item.summary) /\ ~Item.summaryHadData

\* A listing whose summary has an isbn or gtin field: its ISBN is pushed if
\* it is valid and not among the existing ones.
SummaryItem ==
    /\ MoreItems
    /\ ~NeedsDetail
    /\ itemIndex' = itemIndex + 1
    /\ booksFromPage' = PushIfNew(booksFromPage, existingISBNs, Item.summary)
    /\ UNCHANGED <<scrapeFrame, searchOffset, pageNum, consecutiveErrors, existingISBNs,
                   items, rateLimited, detailFetches, passed, searches, limit, pc>>

\* A listing without such a field, whose item detail is fetched: the ISBN of
\* the detail is pushed if there is a valid one and it is not among the
\* existing ones.
DetailItem ==
    /\ MoreItems
    /\ NeedsDetail
    /\ detailFetches' = detailFetches + 1
    /\ itemIndex' = itemIndex + 1
    /\ booksFromPage' = PushIfNew(booksFromPage, existingISBNs, Item.detail)
    /\ UNCHANGED <<scrapeFrame, searchOffset, pageNum, consecutiveErrors, existingISBNs,
                   items, rateLimited, passed, searches, limit, pc>>

\* fetchItemDetail returns null, after an error of its request other than
\* the rate limit: the listing is skipped.
DetailUnavailable ==
    /\ MoreItems
    /\ NeedsDetail
    /\ detailFetches' = detailFetches + 1
    /\ itemIndex' = itemIndex + 1
    /\ UNCHANGED <<scrapeFrame, searchOffset, pageNum, consecutiveErrors, existingISBNs,
                   items, booksFromPage, rateLimited, passed, searches, limit, pc>>

\* fetchItemDetail throws RateLimitError: the flag is set and the item loop
\* is left.
DetailRateLimited ==
    /\ MoreItems
    /\ NeedsDetail
    /\ detailFetches' = detailFetches + 1
    /\ itemIndex' = itemIndex + 1
    /\ rateLimited' = TRUE
    /\ limit' = Some([books |-> booksFromPage, searches |-> Len(searches),
                      details |-> detailFetches', passed |-> Len(passed)])
    /\ pc' = "pageDone"
    /\ UNCHANGED <<scrapeFrame, searchOffset, pageNum, consecutiveErrors, existingISBNs,
                   items, booksFromPage, passed, searches>>

\* fetchItemDetail throws another error, which its getOAuthToken call threw:
\* scrapeAllListings throws it on.
DetailThrows ==
    /\ MoreItems
    /\ NeedsDetail
    /\ detailFetches' = detailFetches + 1
    /\ itemIndex' = itemIndex + 1
    /\ pc' = "threw"
    /\ UNCHANGED <<scrapeFrame, searchOffset, pageNum, consecutiveErrors, existingISBNs,
                   items, booksFromPage, rateLimited, passed, searches, limit>>

\* The item loop has gone through the page.
EndOfPage ==
    /\ pc = "items"
    /\ itemIndex = Len(items.listings)
    /\ pc' = "pageDone"
    /\ UNCHANGED <<scrapeFrame, searchOffset, pageNum, consecutiveErrors, existingISBNs,
                   items, itemIndex, booksFromPage, rateLimited, detailFetches, passed,
                   searches, limit>>

\* Step 3: the books of the page go to onPageDone and their ISBNs into
\* existingISBNs; the scrape stops after a rate limit or a page that is not
\* full, and goes to the next page otherwise.
PageDone ==
    /\ pc = "pageDone"
    /\ IF Len(booksFromPage) > 0
       THEN /\ passed' = Append(passed, booksFromPage)
            /\ existingISBNs' = existingISBNs \cup IsbnsOf(booksFromPage)
       ELSE UNCHANGED <<passed, existingISBNs>>
    /\ IF StopsAfterPage(rateLimited, items.length)
       THEN pc' = "stopped" /\ UNCHANGED searchOffset
       ELSE pc' = "search" /\ searchOffset' = AdvanceOffset(searchOffset)
    /\ UNCHANGED <<scrapeFrame, pageNum, consecutiveErrors, items, itemIndex,
                   booksFromPage, rateLimited, detailFetches, searches, limit>>

NextScrape ==
    \/ ObtainToken
    \/ SearchPage
    \/ SearchRateLimited
    \/ SearchFails
    \/ SummaryItem
    \/ DetailItem
    \/ DetailUnavailable
    \/ DetailRateLimited
    \/ DetailThrows
    \/ EndOfPage
    \/ PageDone

SpecScrape == InitScrape /\ [][NextScrape]_vars

\* Every request is answered and every step of the function is taken.
SpecScrapeFair == SpecScrape /\ WF_vars(NextScrape)

----------------------------------------------------------------------------
(* Claims about the scraper *)

Stopped == pc = "stopped"
ScrapeEnded == pc \in {"stopped", "threw"}
SearchFailed(k) == searches[k].outcome = "failed"

\* C23: after a rate limit during an item-detail fetch no further search and
\* no further item detail is requested, nothing else is collected, and when
\* the scrape has stopped the books collected from the page by then, if there
\* are any, are the last array handed to onPageDone.
C23_RateLimitKeepsCollected ==
    ~IsNull(limit) =>
        /\ Len(searches) = Val(limit).searches
        /\ detailFetches = Val(limit).details
        /\ booksFromPage = Val(limit).books
        /\ pc \in {"pageDone", "stopped"}
        /\ Stopped =>
              IF Val(limit).books = <<>>
              THEN Len(passed) = Val(limit).passed
              ELSE /\ Len(passed) = Val(limit).passed + 1
                   /\ passed[Len(passed)] = Val(limit).books

\* The scrape has stopped after a rate limit on a full page from which a book
\* had been collected, and the result set has a further page.
C23_Witness ==
    /\ Stopped
    /\ ~IsNull(limit)
    /\ Val(limit).books # <<>>
    /\ items.length = PAGE_SIZE
    /\ Len(site) > Len(searches)

\* C29: no ISBN handed to onPageDone was in existingISBNs when the scrape
\* began, and no ISBN is handed to onPageDone twice, in one array or in two.
C29_NoIsbnTwice ==
    \A p \in 1..Len(passed) : \A k \in 1..Len(passed[p]) :
        /\ passed[p][k] \notin given
        /\ \A q \in 1..Len(passed) : \A j \in 1..Len(passed[q]) :
              (p # q \/ k # j) => passed[p][k] # passed[q][j]

\* The searches that were answered or failed: all but one stopped by the
\* rate limit, which can only be the last.
Counted ==
    IF searches # <<>> /\ searches[Len(searches)].outcome = "rateLimit"
    THEN Len(searches) - 1
    ELSE Len(searches)

\* The searches go from page to page, a failed one skips its page, a search
\* follows a successful one only if its page was full, the count of errors is
\* the number of failed searches in a row, and the third of them is the last
\* search.
SearchRules ==
    /\ \A k \in 1..Len(searches) : searches[k].offset = (k - 1) * PAGE_SIZE
    /\ \A k \in 1..(Len(searches) - 1) :
          /\ searches[k].outcome # "rateLimit"
          /\ searches[k].outcome = "ok" => searches[k].length = PAGE_SIZE
    /\ \A k \in 3..Len(searches) :
          (SearchFailed(k - 2) /\ SearchFailed(k - 1) /\ SearchFailed(k)) =>
              (k = Len(searches) /\ Stopped)
    /\ consecutiveErrors =
          Cardinality({k \in 1..Counted : \A j \in k..Counted : SearchFailed(j)})
    /\ consecutiveErrors <= 3
    /\ (consecutiveErrors = 3) => Stopped
    /\ (Len(searches) > 0 /\ searches[Len(searches)].outcome = "ok"
          /\ searches[Len(searches)].length = 0) => Stopped

====
